---- MODULE Spec2Model ----
(***************************************************************************)
(* QuickSync Drives: the dual-pane file manager's front-end state engine.  *)
(*                                                                         *)
(* The module models, from the React sources, five pieces of state and the *)
(* handlers that change them:                                              *)
(*   - FileTree         the local lazily expanded tree (toggleFolder,      *)
(*                      loadDir, refresh, double-click, goUp);             *)
(*   - the transfer-progress listener of App (activeTransfers, refreshKey, *)
(*     the 5000 ms removal timers, handleClearQueue);                      *)
(*   - the drop handlers (FileTree.handleDrop, RemoteFileTree.handleDrop,  *)
(*     the tauri://drag-drop listener) with App's connection state;        *)
(*   - RemoteFileTree in cloud mode (loadRemoteDir, navigateTo, goUp);     *)
(*   - the icon cache (getFileIcon, FileIconRenderer).                     *)
(*                                                                         *)
(* A handler that awaits a backend call is split at the await: one action  *)
(* for the part that runs up to the call, one for the continuation that    *)
(* runs when the call returns (with success or failure chosen by \E).      *)
(* React state read by a handler is the state of the render the handler    *)
(* was created in; a continuation keeps the values its closure captured,   *)
(* which the in-flight records carry.                                      *)
(***************************************************************************)
EXTENDS Integers, Sequences, FiniteSets, TLC

VARIABLES
    \* ---- FileTree (local pane)
    tree,            \* useState<TreeNode[]>: the root-level nodes
    currentPath,     \* useState(rootPath)
    treeError,       \* useState<string|null>: FileTree.error
    searchQuery,     \* useState(""): FileTree's search box
    fetches,         \* list_directory calls in flight, with their continuation
    nFetch,          \* number of list_directory calls issued so far
    expandFetches,   \* history: per directory, expand fetches since the last root load
    snap,            \* history: children of the node collapsed last
    reexp,           \* history: outcome of the re-expansion done by the last step
    lastRoot,        \* history: the root load completed by the last step
    \* ---- App: transfer progress
    activeTransfers, \* useState<Record<string, TransferProgress>>
    refreshKey,      \* useState(0): the refresh token handed to both panes
    timers,          \* pending setTimeout removals: [id, due]
    now,             \* the clock, in time units of 1000 ms
    nEvents,         \* transfer-progress events delivered so far
    lastEvt,         \* history: per transfer id, the last event and what followed it
    \* ---- App: connection state and drops
    connectionStatus,\* useState("Not Connected"), a string
    selectedConn,    \* what selectedConnId resolves to: "none", "ftp" or "cloud"
    connCalls,       \* connect_ftp / disconnect_ftp calls in flight
    nConnOps,        \* connect and disconnect clicks so far
    remoteActive,    \* history: a connect has succeeded and no disconnect since
    transferMsgs,    \* useState<string[]>: the transfer log
    batches,         \* per drop gesture: its files and where its loop stands
    calls,           \* copy/upload backend calls in flight
    paneRefreshes,   \* loadDir / loadRemoteDir calls issued by drop handlers
    blog,            \* history: per batch, what it logged, called and refreshed
    \* ---- RemoteFileTree mounted with a cloudConfig
    pathStack,       \* useState<{id, name}[]>([])
    entries,         \* useState<RemoteEntry[]>([])
    remotePath,      \* useState("/"), as its " / "-separated segments
    remoteError,     \* useState<string | null>(null)
    remoteLoading,   \* useState(false)
    listings,        \* list_cloud_directory calls in flight, with their closures
    nList,           \* listings issued so far
    lastDone,        \* history: the listing that returned last
    ftpCwd,          \* the FTP session's working directory, kept by the backend
    \* ---- icon cache of one tree instance
    iconCache,       \* useState<Record<string, string>>({})
    rows,            \* file rows on screen (FileIconRenderer instances)
    iconCalls,       \* per extension, get_file_icon calls in flight
    issued,          \* history: per extension, get_file_icon calls issued
    failed,          \* history: extensions whose sentinel has been stored
    lateCalls,       \* history: extensions looked up after their sentinel was stored
    seenAfter,       \* history: extensions rendered while their sentinel was cached
    \* ---- RemoteFileTree: per-entry operations
    cloudConfig,     \* the cloudConfig prop: TRUE for a cloud pane, FALSE for an FTP pane
    ops,             \* the per-entry handlers run so far, each with its position
    \* ---- useConfigStore
    store,           \* the store's state: config, loading, error
    saves            \* the saveConfig calls made so far, each with its position;
                     \* history: the store before and after its answer

treeVars ==
    <<tree, currentPath, treeError, searchQuery, fetches, nFetch, expandFetches, snap, reexp,
      lastRoot>>

xferVars == <<activeTransfers, refreshKey, timers, now, nEvents, lastEvt>>

dropVars == <<connectionStatus, selectedConn, connCalls, nConnOps, remoteActive,
              transferMsgs, batches, calls, paneRefreshes, blog>>

cloudVars == <<pathStack, entries, remotePath, remoteError, remoteLoading,
               listings, nList, lastDone, ftpCwd>>

iconVars == <<iconCache, rows, iconCalls, issued, failed, lateCalls, seenAfter>>

opsVars == <<cloudConfig, ops>>

\* App's state other than the transfer log
connVars ==
    <<connectionStatus, selectedConn, connCalls, nConnOps, remoteActive, batches, calls,
      paneRefreshes, blog>>

vars == <<treeVars, xferVars, dropVars, cloudVars, iconVars, opsVars, store, saves>>

-----------------------------------------------------------------------------
(* Bounds of the model *)

\* list_directory calls issued in one run of the local tree
MaxFetch == 4

\* transfer-progress events delivered in one run
MaxEvents == 3

\* the clock stops here
MaxTime == 6

\* files in one drop batch
MaxFiles == 2

\* Connect and Disconnect clicks in one run
MaxConnOps == 2

\* list_cloud_directory calls in one run
MaxList == 4

\* get_file_icon calls in one run
MaxIconCalls == 3

-----------------------------------------------------------------------------
(* Generic helpers *)

Range(s) == {s[i] : i \in 1..Len(s)}

\* String.prototype.includes, on character sequences
Includes(str, sub) ==
    \E i \in 1..(Len(str) - Len(sub) + 1) : SubSeq(str, i, i + Len(sub) - 1) = sub

\* String.prototype.toLowerCase, for the letters the model uses
ToLowerCase(ch) ==
    IF ch = "A" THEN "a" ELSE IF ch = "B" THEN "b"
    ELSE IF ch = "T" THEN "t" ELSE IF ch = "M" THEN "m" ELSE ch

LowerStr(str) == [i \in 1..Len(str) |-> ToLowerCase(str[i])]

\* Array.prototype.slice(0, -1) / slice(1): JavaScript clamps at the ends
DropLast(s) == IF Len(s) = 0 THEN <<>> ELSE SubSeq(s, 1, Len(s) - 1)

-----------------------------------------------------------------------------
(* The local file system seen through list_directory.  Paths are strings,  *)
(* kept as sequences of characters,                                        *)
(* and names too, so that FileTree's own string handling can be modelled.  *)

Sep == "/"

HomePath == <<Sep, "h">>

NameA == <<"a">>

NameB == <<"B", "a">>

NameC == <<"c">>

NameF == <<"f">>

Join(dir, name) == dir \o <<Sep>> \o name

FileEntry(dir, name, isDir) == [name |-> name, path |-> Join(dir, name), is_dir |-> isDir]

\* What the backend may answer for a directory: the entries in listing order.
ListDirectory(path) ==
    IF path = HomePath
        THEN <<FileEntry(path, NameA, TRUE), FileEntry(path, NameB, TRUE),
               FileEntry(path, NameF, FALSE)>>
    ELSE IF path = Join(HomePath, NameA)
        THEN <<FileEntry(path, NameC, TRUE)>>
    ELSE <<>>

\* goUp: currentPath.replace(/[\\/][^\\/]*$/, ""): the text from the last
\* separator on is removed; a path without separator is left as it is
IsSep(c) == c = "/" \/ c = "\\"

SepPositions(path) == {i \in 1..Len(path) : IsSep(path[i])}

ParentOf(path) ==
    IF SepPositions(path) = {} THEN path
    ELSE LET i == CHOOSE k \in SepPositions(path) : \A j \in SepPositions(path) : j <= k
         IN  SubSeq(path, 1, i - 1)

DirPaths ==
    {HomePath, Join(HomePath, NameA), Join(HomePath, NameB),
     Join(Join(HomePath, NameA), NameC)}

-----------------------------------------------------------------------------
(* TreeNode: children is optional in the source; absent is kept apart from *)
(* present-and-empty.                                                      *)

Absent == [present |-> FALSE, kids |-> <<>>]

Present(kids) == [present |-> TRUE, kids |-> kids]

NoError == "null"

\* The mutant of FreshNode: a listed node is created with the loading mark
FreshNodeLoading(e) ==
    [name |-> e.name, path |-> e.path, is_dir |-> e.is_dir,
     children |-> Absent, expanded |-> FALSE, loading |-> TRUE]

\* loadDir's entries.map(...): every entry becomes an unfetched, collapsed node
FreshNode(e) ==
    [name |-> e.name, path |-> e.path, is_dir |-> e.is_dir,
     children |-> Absent, expanded |-> FALSE, loading |-> FALSE]

FreshNodes(listed) == [i \in 1..Len(listed) |-> FreshNode(listed[i])]

\* The mutant of ToggledNode: a collapse that throws the fetched children away
ToggledNodeDropsChildren(n) ==
    [n EXCEPT !.expanded = ~n.expanded,
              !.loading = ~n.expanded /\ ~n.children.present,
              !.children = IF n.expanded THEN Absent ELSE n.children]

\* toggleFolder's update, the node hit: { ...n, expanded: !n.expanded,
\*                                        loading: !n.expanded && !n.children }
ToggledNode(n) ==
    [n EXCEPT !.expanded = ~n.expanded,
              !.loading = ~n.expanded /\ ~n.children.present]

\* toggleFolder's update(nodes, path): path is the index path of the click
RECURSIVE Update(_, _)
Update(nodes, path) ==
    [i \in 1..Len(nodes) |->
        IF Len(path) = 1 /\ i = path[1]
            THEN ToggledNode(nodes[i])
        ELSE IF Len(path) > 1 /\ i = path[1] /\ nodes[i].children.present
            THEN [nodes[i] EXCEPT !.children = Present(Update(nodes[i].children.kids, Tail(path)))]
        ELSE nodes[i]]

\* toggleFolder's setChildren(nodes, path) with the fetched children
RECURSIVE SetChildren(_, _, _)
SetChildren(nodes, path, children) ==
    [i \in 1..Len(nodes) |->
        IF Len(path) = 1 /\ i = path[1]
            THEN [nodes[i] EXCEPT !.children = Present(children), !.loading = FALSE]
        ELSE IF Len(path) > 1 /\ i = path[1] /\ nodes[i].children.present
            THEN [nodes[i] EXCEPT
                    !.children = Present(SetChildren(nodes[i].children.kids, Tail(path), children))]
        ELSE nodes[i]]

\* renderNodes: the index paths of the rows on screen (children are rendered
\* only under a node that is expanded and has children)
RECURSIVE RenderedPaths(_, _)
RenderedPaths(nodes, indexPath) ==
    UNION {
        {indexPath \o <<i>>} \cup
        (IF nodes[i].expanded /\ nodes[i].children.present
            THEN RenderedPaths(nodes[i].children.kids, indexPath \o <<i>>)
            ELSE {})
        : i \in 1..Len(nodes)}

\* The node a rendered row shows
RECURSIVE NodeAt(_, _)
NodeAt(nodes, path) ==
    IF Len(path) = 1 THEN nodes[path[1]]
    ELSE NodeAt(nodes[path[1]].children.kids, Tail(path))

\* All nodes materialised in the tree, at any depth
RECURSIVE AllNodes(_)
AllNodes(nodes) ==
    UNION {{nodes[i]} \cup (IF nodes[i].children.present THEN AllNodes(nodes[i].children.kids) ELSE {})
           : i \in 1..Len(nodes)}

\* Does the index path lead to a node of the tree (through children that
\* are present)?
RECURSIVE Resolves(_, _)
Resolves(nodes, path) ==
    /\ path[1] \in 1..Len(nodes)
    /\ \/ Len(path) = 1
       \/ /\ nodes[path[1]].children.present
          /\ Resolves(nodes[path[1]].children.kids, Tail(path))

\* What the search box may hold
Queries == {<<>>, <<"b">>, <<"A">>}

\* The mutant of NameMatches: the name is compared as it is spelled
NameMatchesCaseSensitive(name, query) == Includes(name, LowerStr(query))

\* node.name.toLowerCase().includes(searchQuery.toLowerCase())
NameMatches(name, query) == Includes(LowerStr(name), LowerStr(query))

MatchesQuery(node) == NameMatches(node.name, searchQuery)

\* filteredTree: tree.filter(...) over the root level
FilteredTree == SelectSeq(tree, MatchesQuery)

\* visibleNodes = searchQuery ? filteredTree : tree
VisibleNodes == IF searchQuery # <<>> THEN FilteredTree ELSE tree

NoSnap == [valid |-> FALSE, idx |-> <<>>, kids |-> <<>>, touched |-> FALSE]

NoReexp == [valid |-> FALSE, before |-> <<>>, after |-> <<>>, touched |-> FALSE]

ZeroCounts == [d \in DirPaths |-> 0]

\* A list_directory call in flight and what its continuation will do
RootFetch(id, path) == [id |-> id, kind |-> "root", path |-> path, idx |-> <<>>, hadKids |-> FALSE]

\* The root load of a refresh (the Refresh button, a refreshKey change): the
\* same call, told apart from the load that follows a change of currentPath
RefreshFetch(id, path) == [RootFetch(id, path) EXCEPT !.kind = "refresh"]

NoRootDone ==
    [valid |-> FALSE, ok |-> FALSE, refresh |-> FALSE, path |-> <<>>,
     discarded |-> FALSE, stuck |-> FALSE]

\* A node that shows as loading while no expand fetch for it is in flight
IsStuck(n) == n.loading /\ ~\E f \in fetches : f.kind = "expand" /\ f.path = n.path

ExpandFetch(id, node, idx) ==
    [id |-> id, kind |-> "expand", path |-> node.path, idx |-> idx, hadKids |-> node.children.present]

-----------------------------------------------------------------------------
(* FileTree: state after mount.  The mount effect has called               *)
(* loadDir(currentPath), which is still in flight.                         *)

TreeInit ==
    /\ tree = <<>>
    /\ currentPath = HomePath
    /\ treeError = NoError
    /\ searchQuery = <<>>
    /\ fetches = {RootFetch(1, HomePath)}
    /\ nFetch = 1
    /\ expandFetches = ZeroCounts
    /\ snap = NoSnap
    /\ reexp = NoReexp
    /\ lastRoot = NoRootDone

\* onClick of a rendered directory row: toggleFolder(node, path) up to its
\* await.  node is the row's node and idx its index path among the rendered
\* (visible) nodes; update(prev, idx) is applied to the whole tree.
ToggleFolder(idx) ==
    LET node == NodeAt(VisibleNodes, idx)
        load == ~node.expanded /\ ~node.children.present
        hit == Resolves(tree, idx)
        target == IF hit THEN NodeAt(tree, idx) ELSE node
    IN  /\ node.is_dir
        /\ tree' = Update(tree, idx)
        /\ IF load
             THEN /\ nFetch < MaxFetch
                  /\ nFetch' = nFetch + 1
                  /\ fetches' = fetches \cup {ExpandFetch(nFetch + 1, node, idx)}
                  /\ treeError' = NoError
                  /\ expandFetches' = [expandFetches EXCEPT ![node.path] = @ + 1]
             ELSE UNCHANGED <<nFetch, fetches, treeError, expandFetches>>
        /\ IF hit /\ target.expanded /\ target.children.present
             THEN /\ snap' = [valid |-> TRUE, idx |-> idx, kids |-> target.children.kids,
                              touched |-> FALSE]
                  /\ reexp' = NoReexp
             ELSE IF hit /\ ~target.expanded /\ snap.valid /\ snap.idx = idx
             THEN /\ reexp' = [valid |-> TRUE, before |-> snap.kids,
                               after |-> NodeAt(tree', idx).children.kids,
                               touched |-> snap.touched]
                  /\ snap' = NoSnap
             ELSE /\ reexp' = NoReexp
                  /\ UNCHANGED snap
        /\ lastRoot' = NoRootDone
        /\ UNCHANGED <<currentPath, searchQuery>>

\* toggleFolder after its await: loadDir returned the children (or [] after a
\* failure, with the error set) and setChildren stores them at the index path
ExpandArrives(f, ok) ==
    /\ f \in fetches /\ f.kind = "expand"
    /\ fetches' = fetches \ {f}
    /\ tree' = SetChildren(tree, f.idx, IF ok THEN FreshNodes(ListDirectory(f.path)) ELSE <<>>)
    /\ treeError' = IF ok THEN treeError ELSE "list_directory failed"
    /\ snap' = IF snap.valid THEN [snap EXCEPT !.touched = TRUE] ELSE snap
    /\ reexp' = NoReexp
    /\ lastRoot' = NoRootDone
    /\ UNCHANGED <<currentPath, searchQuery, nFetch, expandFetches>>

\* The Refresh button: loadDir(currentPath).then(setTree), up to the await
Refresh ==
    /\ nFetch < MaxFetch
    /\ nFetch' = nFetch + 1
    /\ fetches' = fetches \cup {RefreshFetch(nFetch + 1, currentPath)}
    /\ treeError' = NoError
    /\ expandFetches' = ZeroCounts
    /\ snap' = NoSnap
    /\ reexp' = NoReexp
    /\ lastRoot' = NoRootDone
    /\ UNCHANGED <<tree, currentPath, searchQuery>>

\* The root-load effect runs again because the refreshKey prop has changed:
\* loadDir(currentPath).then(setTree)
RefreshKeyEffect ==
    /\ nFetch < MaxFetch
    /\ nFetch' = nFetch + 1
    /\ fetches' = fetches \cup {RefreshFetch(nFetch + 1, currentPath)}
    /\ treeError' = NoError
    /\ expandFetches' = ZeroCounts
    /\ snap' = NoSnap
    /\ reexp' = NoReexp
    /\ lastRoot' = NoRootDone
    /\ UNCHANGED <<tree, currentPath, searchQuery>>

\* loadDir(...).then(setTree): the root level is replaced by the listing, or
\* by [] after a failure
RootArrives(f, ok) ==
    /\ f \in fetches /\ f.kind \in {"root", "refresh"}
    /\ fetches' = fetches \ {f}
    /\ tree' = IF ok THEN FreshNodes(ListDirectory(f.path)) ELSE <<>>
    /\ treeError' = IF ok THEN treeError ELSE "list_directory failed"
    /\ expandFetches' = ZeroCounts
    /\ snap' = NoSnap
    /\ reexp' = NoReexp
    /\ lastRoot' = [valid |-> TRUE, ok |-> ok, refresh |-> f.kind = "refresh", path |-> f.path,
                    discarded |-> \E n \in AllNodes(tree) : n.expanded \/ n.children.present,
                    stuck |-> \E n \in AllNodes(tree) : IsStuck(n)]
    /\ UNCHANGED <<currentPath, searchQuery, nFetch>>

\* The root-load effect: it runs when currentPath has changed
SetCurrentPath(path) ==
    /\ path # currentPath
    /\ nFetch < MaxFetch
    /\ currentPath' = path
    /\ nFetch' = nFetch + 1
    /\ fetches' = fetches \cup {RootFetch(nFetch + 1, path)}
    /\ treeError' = NoError
    /\ expandFetches' = ZeroCounts
    /\ snap' = NoSnap
    /\ reexp' = NoReexp
    /\ lastRoot' = NoRootDone
    /\ UNCHANGED <<tree, searchQuery>>

\* onDoubleClick of a rendered directory row: setCurrentPath(node.path)
DoubleClick(idx) ==
    /\ NodeAt(VisibleNodes, idx).is_dir
    /\ SetCurrentPath(NodeAt(VisibleNodes, idx).path)

\* goUp: if (parent && parent !== currentPath) setCurrentPath(parent)
GoUp ==
    /\ ParentOf(currentPath) # <<>>
    /\ SetCurrentPath(ParentOf(currentPath))

\* The search box: onChange, or the clear button
SetSearchQuery(q) ==
    /\ q # searchQuery
    /\ searchQuery' = q
    /\ lastRoot' = NoRootDone
    /\ UNCHANGED <<tree, currentPath, treeError, fetches, nFetch, expandFetches,
                   snap, reexp>>

TreeNext ==
    \/ \E idx \in RenderedPaths(VisibleNodes, <<>>) : ToggleFolder(idx)
    \/ \E idx \in RenderedPaths(VisibleNodes, <<>>) : DoubleClick(idx)
    \/ GoUp
    \/ \E f \in fetches, ok \in BOOLEAN : ExpandArrives(f, ok)
    \/ Refresh
    \/ RefreshKeyEffect
    \/ \E q \in Queries : SetSearchQuery(q)
    \/ \E f \in fetches, ok \in BOOLEAN : RootArrives(f, ok)

-----------------------------------------------------------------------------
(* App: the transfer-progress listener, the removal timers and Clear.      *)

TransferIds == {"t1", "t2"}

Statuses == {"in-progress", "complete", "error"}

\* The payloads the backend may push (filename and total play no part)
Payloads == [transfer_id : TransferIds, status : Statuses, progress : {1, 2}]

\* setTimeout(..., 5000), in time units of 1000 ms
RemovalDelay == 5

\* The mutant of Merged: the map is started afresh with the event's record
MergedAlone(prev, p) == [i \in {p.transfer_id} |-> p]

\* { ...prev, [p.transfer_id]: p }
Merged(prev, p) ==
    [id \in DOMAIN prev \cup {p.transfer_id} |-> IF id = p.transfer_id THEN p ELSE prev[id]]

\* A mutant of Cleaned: the timer callback empties the map
CleanedAll(curr, id) == [i \in {} |-> curr[i]]

\* The mutant of Cleaned: the timer callback deletes nothing
CleanedNothing(curr, id) == curr

\* const cleaned = { ...curr }; delete cleaned[p.transfer_id]
Cleaned(curr, id) == [i \in DOMAIN curr \ {id} |-> curr[i]]

EmptyMap == [i \in {} |-> 0]

NeverSeen ==
    [seen |-> FALSE, p |-> [transfer_id |-> "t1", status |-> "error", progress |-> 1],
     at |-> 0, pendingBefore |-> FALSE, afterRemoval |-> FALSE,
     removed |-> FALSE, cleared |-> FALSE]

XferInit ==
    /\ activeTransfers = EmptyMap
    /\ refreshKey = 0
    /\ timers = {}
    /\ now = 0
    /\ nEvents = 0
    /\ lastEvt = [id \in TransferIds |-> NeverSeen]

\* The mutant of IsComplete: every final status counts
IsCompleteOrError(p) == p.status \in {"complete", "error"}

\* p.status === 'complete'
IsComplete(p) == p.status = "complete"

\* listen("transfer-progress", ...): the event's payload is merged; a complete
\* event also bumps refreshKey and arms a removal RemovalDelay later.  Two
\* removals of one id due at the same time act as one (delete is idempotent).
ProgressEvent(p) ==
    /\ nEvents < MaxEvents
    /\ nEvents' = nEvents + 1
    /\ activeTransfers' = Merged(activeTransfers, p)
    /\ IF IsComplete(p)
         THEN /\ refreshKey' = refreshKey + 1
              /\ timers' = timers \cup {[id |-> p.transfer_id, due |-> now + RemovalDelay]}
         ELSE UNCHANGED <<refreshKey, timers>>
    /\ lastEvt' = [lastEvt EXCEPT ![p.transfer_id] =
                     [seen |-> TRUE, p |-> p, at |-> now,
                      pendingBefore |-> \E tm \in timers : tm.id = p.transfer_id,
                      afterRemoval |-> lastEvt[p.transfer_id].removed
                                        /\ p.transfer_id \notin DOMAIN activeTransfers,
                      removed |-> FALSE, cleared |-> FALSE]]
    /\ UNCHANGED now

\* The setTimeout callback: it runs once its delay has elapsed
TimerFires(tm) ==
    /\ tm \in timers
    /\ tm.due <= now
    /\ timers' = timers \ {tm}
    /\ activeTransfers' = Cleaned(activeTransfers, tm.id)
    /\ lastEvt' = [lastEvt EXCEPT ![tm.id].removed = @ \/ tm.id \in DOMAIN activeTransfers]
    /\ UNCHANGED <<refreshKey, now, nEvents>>

\* One time unit passes; a timer that is due runs before the clock moves on
Tick ==
    /\ now < MaxTime
    /\ \A tm \in timers : tm.due > now
    /\ now' = now + 1
    /\ UNCHANGED <<activeTransfers, refreshKey, timers, nEvents, lastEvt>>

\* handleClearQueue (the Clear button is rendered while either is non-empty):
\* setTransferMsgs([]); setActiveTransfers({})
ClearQueue ==
    /\ Len(transferMsgs) > 0 \/ activeTransfers # EmptyMap
    /\ transferMsgs' = <<>>
    /\ activeTransfers' = EmptyMap
    /\ lastEvt' = [id \in TransferIds |-> [lastEvt[id] EXCEPT !.cleared = TRUE]]
    /\ UNCHANGED <<refreshKey, timers, now, nEvents>>
    /\ UNCHANGED <<connectionStatus, selectedConn, connCalls, nConnOps, remoteActive,
                   batches, calls, paneRefreshes, blog>>

XferNext ==
    \/ (\E p \in Payloads : ProgressEvent(p)) /\ UNCHANGED dropVars
    \/ (\E tm \in timers : TimerFires(tm)) /\ UNCHANGED dropVars
    \/ Tick /\ UNCHANGED dropVars
    \/ ClearQueue


-----------------------------------------------------------------------------
(* App: connection state.  connectionStatus is free text; the render tests *)
(* it with String.prototype.includes, modelled on the characters.          *)

StrNotConnected == <<"N", "o", "t", " ", "C", "o", "n", "n", "e", "c", "t", "e", "d">>

StrConnecting == <<"C", "o", "n", "n", "e", "c", "t", "i", "n", "g", "...">>

StrCloudConnected == <<"C", "o", "n", "n", "e", "c", "t", "e", "d", " ", "t", "o", " ", "C", "l", "o", "u", "d", " ", "S", "t", "o", "r", "a", "g", "e">>

\* What the backend may answer (its texts are not part of the front end)
ConnectResults == {<<"C", "o", "n", "n", "e", "c", "t", "e", "d", " ", "t", "o", " ", "f", "t", "p">>}

DisconnectResults == {<<"D", "i", "s", "c", "o", "n", "n", "e", "c", "t", "e", "d">>, <<"S", "e", "s", "s", "i", "o", "n", " ", "c", "l", "o", "s", "e", "d">>}

\* setConnectionStatus(`Error: ${err}`)
ErrorStatuses == {<<"E", "r", "r", "o", "r", ":", " ", "t", "i", "m", "e", "d", " ", "o", "u", "t">>}

\* connectionStatus.includes('connected') || connectionStatus.includes('Connected')
ShowsConnected(status) ==
    Includes(status, <<"c", "o", "n", "n", "e", "c", "t", "e", "d">>) \/ Includes(status, <<"C", "o", "n", "n", "e", "c", "t", "e", "d">>)

\* activeConnName: a saved connection is selected
ConnSelected == selectedConn # "none"

\* The render mounts RemoteFileTree (and offers Disconnect)
RemoteMounted == ConnSelected /\ ShowsConnected(connectionStatus)

\* The drag-drop listener's isRemoteConnected
IsRemoteConnected == ShowsConnected(connectionStatus) /\ ConnSelected

ConnInit ==
    /\ connectionStatus = StrNotConnected
    /\ selectedConn = "none"
    /\ connCalls = {}
    /\ nConnOps = 0
    /\ remoteActive = FALSE

\* A sidebar item is clicked: setSelectedConnId
SelectConn(c) ==
    /\ c # selectedConn
    /\ selectedConn' = c
    /\ UNCHANGED <<connectionStatus, connCalls, nConnOps, remoteActive>>

\* handleConnect, up to its await (the cloud branch has none)
HandleConnect ==
    /\ ConnSelected /\ ~ShowsConnected(connectionStatus)
    /\ nConnOps < MaxConnOps
    /\ nConnOps' = nConnOps + 1
    /\ IF selectedConn = "ftp"
         THEN /\ connectionStatus' = StrConnecting
              /\ connCalls' = connCalls \cup {[id |-> nConnOps + 1, op |-> "connect_ftp"]}
              /\ UNCHANGED remoteActive
         ELSE /\ connectionStatus' = StrCloudConnected
              /\ remoteActive' = TRUE
              /\ UNCHANGED connCalls
    /\ UNCHANGED selectedConn

\* handleDisconnect, up to its await
HandleDisconnect ==
    /\ RemoteMounted
    /\ nConnOps < MaxConnOps
    /\ nConnOps' = nConnOps + 1
    /\ connCalls' = connCalls \cup {[id |-> nConnOps + 1, op |-> "disconnect_ftp"]}
    /\ UNCHANGED <<connectionStatus, selectedConn, remoteActive>>

\* connect_ftp / disconnect_ftp returns: setConnectionStatus(result), or the
\* error text when it throws
ConnCallReturns(c, ok, text) ==
    /\ c \in connCalls
    /\ connCalls' = connCalls \ {c}
    /\ IF ok
         THEN /\ text \in (IF c.op = "connect_ftp" THEN ConnectResults ELSE DisconnectResults)
              /\ remoteActive' = (c.op = "connect_ftp")
         ELSE /\ text \in ErrorStatuses
              /\ UNCHANGED remoteActive
    /\ connectionStatus' = text
    /\ UNCHANGED <<selectedConn, nConnOps>>

ConnNext ==
    \/ \E c \in {"none", "ftp", "cloud"} : SelectConn(c)
    \/ HandleConnect
    \/ HandleDisconnect
    \/ \E c \in connCalls, ok \in BOOLEAN,
          text \in ConnectResults \cup DisconnectResults \cup ErrorStatuses :
          ConnCallReturns(c, ok, text)

-----------------------------------------------------------------------------
(* Drops: FileTree.handleDrop ("local"), RemoteFileTree.handleDrop         *)
(* ("remote") and the tauri://drag-drop listener ("native").  Each drop    *)
(* gesture is a batch; its loop awaits one backend call per file.          *)

BatchOrder == <<"b1", "b2">>

BatchIds == {BatchOrder[k] : k \in 1..Len(BatchOrder)}

NoBatch ==
    [phase |-> "none", kind |-> "local", n |-> 0, noPath |-> {}, op |-> "copy_to_local",
     i |-> 0, activeAtDispatch |-> FALSE, mounted |-> FALSE]

Msg(b, file, kind) == [batch |-> b, file |-> file, kind |-> kind]

Ev(ev, file, kind) == [ev |-> ev, file |-> file, kind |-> kind]

LogEvs(msgs) == [k \in 1..Len(msgs) |-> Ev("log", msgs[k].file, msgs[k].kind)]

Min(S) == CHOOSE x \in S : \A y \in S : x <= y

\* The first file from i on that has a path (the loop awaits its call), or
\* n + 1 when the loop runs to its end
NextStop(bt, i) ==
    IF \E j \in i..bt.n : j \notin bt.noPath
        THEN Min({j \in i..bt.n : j \notin bt.noPath})
        ELSE bt.n + 1

\* The mutant of CallsStartedFrom: the calls are started without awaiting
CallsStartedUnawaited(bt, i) == {j \in i..bt.n : j \notin bt.noPath}

\* The files whose backend call the loop starts when it runs on from file i:
\* it stops at the first await
CallsStartedFrom(bt, i) ==
    IF NextStop(bt, i) <= bt.n THEN {NextStop(bt, i)} ELSE {}

\* The mutant of RefreshAfterLoop: the refresh sits inside the try block
RefreshOnlyAfterSuccess(bt, lastOk) == lastOk

\* The statement after the loop (loadDir / loadRemoteDir / setRefreshKey) is
\* reached whatever the files' outcomes were
RefreshAfterLoop(bt, lastOk) == TRUE

\* The mutant of ResumeAt: a failure leaves the loop (try around the loop)
ResumeAtEndOnError(bt, file, ok) == IF ok THEN file + 1 ELSE bt.n + 1

\* Where the loop goes on after the call for `file` returned: try/catch sits
\* inside the loop body, so the next file follows a failure too
ResumeAt(bt, file, ok) == file + 1

\* The operation a batch sends its files to
OpOfDrop(kind) ==
    IF kind = "local" THEN "copy_to_local"
    ELSE IF kind = "remote"
        THEN (IF selectedConn = "cloud" THEN "upload_cloud_file" ELSE "upload_file")
    ELSE IF IsRemoteConnected
        THEN (IF selectedConn = "cloud" THEN "upload_cloud_file" ELSE "upload_file")
    ELSE "copy_to_local"

\* The mutant of OpForFile: the connection state is read again for each file
OpForFileReadAgain(bt) == OpOfDrop(bt.kind)

\* The operation the loop sends a file to: isRemoteConnected and the
\* selected connection are values of the handler's closure, fixed when the
\* handler starts
OpForFile(bt) == bt.op

\* The two DEBUG lines the pane handlers log first
DebugMsgs(b, kind) ==
    IF kind = "native" THEN <<>> ELSE <<Msg(b, 0, "debug"), Msg(b, 0, "debug")>>

DropInit ==
    /\ transferMsgs = <<>>
    /\ batches = [b \in BatchIds |-> NoBatch]
    /\ calls = {}
    /\ paneRefreshes = [local |-> 0, remote |-> 0]
    /\ blog = [b \in BatchIds |-> <<>>]

\* The loop of batch b runs on from file i after logging `first`: it logs a
\* line for every file without a path, and either starts the next call or,
\* past the last file, refreshes the pane(s) and ends
RunLoop(b, bt, i, returned, pre, first, lastOk) ==
    LET stop == NextStop(bt, i)
        skips == [k \in 1..(stop - i) |-> Msg(b, i + k - 1, "nopath")]
        start == IF stop <= bt.n THEN <<Msg(b, stop, "start")>> ELSE <<>>
        msgs == first \o skips \o start
        started == CallsStartedFrom(bt, i)
        ends == stop > bt.n
        refresh == ends /\ RefreshAfterLoop(bt, lastOk)
    IN  /\ transferMsgs' = transferMsgs \o msgs
        /\ calls' = (calls \ returned)
                        \cup {[batch |-> b, file |-> j, op |-> OpForFile(bt)] : j \in started}
        /\ batches' = [batches EXCEPT ![b] =
                          [bt EXCEPT !.phase = IF ends THEN "done" ELSE "calling",
                                     !.i = stop]]
        /\ IF refresh /\ bt.kind = "native"
             THEN refreshKey' = refreshKey + 1
             ELSE UNCHANGED refreshKey
        /\ paneRefreshes' =
             IF refresh /\ bt.kind = "local"
                 THEN [paneRefreshes EXCEPT !.local = @ + 1]
             ELSE IF refresh /\ bt.kind = "remote"
                 THEN [paneRefreshes EXCEPT !.remote = @ + 1]
             ELSE paneRefreshes
        /\ blog' = [blog EXCEPT ![b] =
                       @ \o pre \o LogEvs(msgs)
                         \o [k \in 1..Cardinality(started) |->
                                Ev("call", Min(started) + k - 1, OpForFile(bt))]
                         \o (IF refresh THEN <<Ev("refresh", 0, bt.kind)>> ELSE <<>>)]

\* A drop gesture with n files; noPath are the files whose File object has
\* no path (pane drops only).  An empty drop returns after the DEBUG lines.
Drop(b, kind, n, noPath) ==
    /\ batches[b].phase = "none"
    /\ \A k \in 1..Len(BatchOrder) :
          BatchOrder[k] = b => \A j \in 1..(k - 1) : batches[BatchOrder[j]].phase # "none"
    /\ kind = "remote" => RemoteMounted
    /\ kind = "native" => noPath = {}
    /\ LET bt == [phase |-> "calling", kind |-> kind, n |-> n, noPath |-> noPath,
                  op |-> OpOfDrop(kind), i |-> 1,
                  activeAtDispatch |-> remoteActive, mounted |-> RemoteMounted]
       IN  IF n = 0
             THEN /\ transferMsgs' = transferMsgs \o DebugMsgs(b, kind)
                  /\ batches' = [batches EXCEPT ![b] = [bt EXCEPT !.phase = "done"]]
                  /\ blog' = [blog EXCEPT ![b] = LogEvs(DebugMsgs(b, kind))]
                  /\ UNCHANGED <<calls, paneRefreshes, refreshKey>>
             ELSE RunLoop(b, bt, 1, {}, <<>>, DebugMsgs(b, kind), TRUE)
    /\ UNCHANGED <<connectionStatus, selectedConn, connCalls, nConnOps, remoteActive>>
    /\ UNCHANGED <<activeTransfers, timers, now, nEvents, lastEvt>>

\* The awaited call of a batch returns: its outcome is logged (the result, or
\* the error line of the catch block) and the loop runs on
CallReturns(c, ok) ==
    /\ c \in calls
    /\ LET b == c.batch
           outcome == Msg(b, c.file, IF ok THEN "result" ELSE "error")
       IN  RunLoop(b, batches[b], ResumeAt(batches[b], c.file, ok), {c},
                   <<Ev("ret", c.file, c.op)>>, <<outcome>>, ok)
    /\ UNCHANGED <<connectionStatus, selectedConn, connCalls, nConnOps, remoteActive>>
    /\ UNCHANGED <<activeTransfers, timers, now, nEvents, lastEvt>>

\* A drop gesture starting one of the batches in B
DropStep(B) ==
    \E b \in B, kind \in {"local", "remote", "native"}, n \in 0..MaxFiles :
        \E noPath \in SUBSET (1..n) : Drop(b, kind, n, noPath)

ConnStep ==
    /\ ConnNext
    /\ UNCHANGED <<transferMsgs, batches, calls, paneRefreshes, blog>>
    /\ UNCHANGED xferVars

\* The sidebar selection changes while a drop is still to come (nothing in
\* this component reads it after the last drop)
SelectStep ==
    /\ \E b \in BatchIds : batches[b].phase = "none"
    /\ \E c \in {"none", "ftp", "cloud"} : SelectConn(c)
    /\ UNCHANGED <<transferMsgs, batches, calls, paneRefreshes, blog>>
    /\ UNCHANGED xferVars

\* Overlapping drop batches, with the sidebar selection changing under them
DropNext ==
    \/ DropStep(BatchIds)
    \/ \E c \in calls, ok \in BOOLEAN : CallReturns(c, ok)
    \/ SelectStep

\* One drop batch under every connection history, and the Clear button
ConnDropNext ==
    \/ DropStep({BatchOrder[1]})
    \/ \E c \in calls, ok \in BOOLEAN : CallReturns(c, ok)
    \/ ConnStep
    \/ ClearQueue


-----------------------------------------------------------------------------
(* RemoteFileTree in cloud mode: folders are addressed by id, the path     *)
(* stack is the breadcrumb from the root.                                  *)

\* folderId: null
NullId == "null"

\* What reading past the ends of a JS array gives
UndefinedId == "undefined"

\* A RemoteEntry without id
NoId == ""

RemoteEntry(id, name, isDir) == [id |-> id, name |-> name, is_dir |-> isDir]

\* The cloud drive: root holds folders x and y, a folder without id, a file
\* and a file without id; x holds folder z
ListCloudDirectory(folderId) ==
    IF folderId = NullId
        THEN <<RemoteEntry("ix", "x", TRUE), RemoteEntry("iy", "y", TRUE),
               RemoteEntry(NoId, "w", TRUE), RemoteEntry("ig", "g", FALSE),
               RemoteEntry(NoId, "v", FALSE)>>
    ELSE IF folderId = "ix" THEN <<RemoteEntry("iz", "z", TRUE)>>
    ELSE <<>>

\* The mutant of UpGuard: the element below the top is read whenever the
\* stack is not empty
UpGuardNonEmpty(stack) == Len(stack) > 0

\* goUp reads pathStack[pathStack.length - 2] only when pathStack.length > 1
UpGuard(stack) == Len(stack) > 1

\* pathStack[k].id for a 0-based k; past the ends the element is undefined
\* and reading its id throws
IdAt(stack, k) ==
    IF k \in 0..(Len(stack) - 1) THEN stack[k + 1].id ELSE UndefinedId

\* The folderId a call loadRemoteDir(path) asks for
FolderIdFor(arg, path, stack) ==
    IF arg = "up"
        THEN (IF UpGuard(stack) THEN IdAt(stack, Len(stack) - 2) ELSE NullId)
        ELSE path

\* The mutant of NextStack: going up leaves the stack as it is
NextStackNoPop(l) ==
    IF l.arg = "up" THEN l.stack
    ELSE IF l.arg = "into" THEN Append(l.stack, [id |-> l.path, name |-> l.dirName])
    ELSE <<>>

\* nextStack, from the stack the call's closure holds
NextStack(l) ==
    IF l.arg = "up" THEN DropLast(l.stack)
    ELSE IF l.arg = "into" THEN Append(l.stack, [id |-> l.path, name |-> l.dirName])
    ELSE <<>>

\* pwd: "/ (Cloud Root)" or "Root / " + names.join(" / ")
Pwd(stack) ==
    IF Len(stack) = 0 THEN <<"/ (Cloud Root)">>
    ELSE <<"Root">> \o [k \in 1..Len(stack) |-> stack[k].name]

\* The FTP server: the root holds file p, directory q and directory s, a
\* link to q that the server resolves; q holds file r
FtpRoot == <<"/">>

\* list_remote_directory's change of directory: none for path null, the
\* parent for "..", the directory named (a link resolved) otherwise
ChangeDir(cwd, path) ==
    IF path = NullId THEN cwd
    ELSE IF path = ".." THEN (IF Len(cwd) > 1 THEN DropLast(cwd) ELSE cwd)
    ELSE IF cwd = FtpRoot /\ path \in {"q", "s"} THEN <<"/", "q">>
    ELSE cwd

NoListing ==
    [arg |-> "none", ok |-> FALSE, depth |-> 0, folderId |-> NullId,
     read |-> FALSE, readIdx |-> -2, afterUpToRoot |-> FALSE, pwd |-> <<>>,
     id |-> 0, late |-> FALSE]

\* loadRemoteDir up to its await
LoadRemoteDir(arg, path, dirName) ==
    /\ nList < MaxList
    /\ nList' = nList + 1
    /\ remoteLoading' = TRUE
    /\ remoteError' = NoError
    /\ listings' = listings \cup
          {[id |-> nList + 1, arg |-> arg, path |-> path, dirName |-> dirName,
            stack |-> pathStack,
            folderId |-> FolderIdFor(arg, path, pathStack),
            read |-> arg = "up" /\ UpGuard(pathStack),
            readIdx |-> Len(pathStack) - 2,
            stage |-> "list", files |-> <<>>]}
    /\ UNCHANGED <<pathStack, entries, remotePath, lastDone, ftpCwd>>

\* The mount effect calls loadRemoteDir()
CloudInit ==
    /\ pathStack = <<>>
    /\ entries = <<>>
    /\ remotePath = <<"/">>
    /\ remoteError = NoError
    /\ remoteLoading = TRUE
    /\ nList = 1
    /\ listings = {[id |-> 1, arg |-> "root", path |-> NullId, dirName |-> "",
                    stack |-> <<>>, folderId |-> NullId, read |-> FALSE,
                    readIdx |-> -2, stage |-> "list", files |-> <<>>]}
    /\ lastDone = NoListing
    /\ ftpCwd = FtpRoot

\* A click on a displayed folder: navigateTo(entry); an entry without id is
\* not opened
NavigateTo(k) ==
    /\ k \in 1..Len(entries)
    /\ entries[k].is_dir
    /\ entries[k].id # NoId
    /\ LoadRemoteDir("into", entries[k].id, entries[k].name)

\* goUp = loadRemoteDir("..")
GoUpCloud == LoadRemoteDir("up", "..", "")

\* The Refresh button: loadRemoteDir()
RefreshCloud == LoadRemoteDir("root", NullId, "")

\* The refresh effect runs again because the refreshKey prop has changed:
\* loadRemoteDir()
RefreshKeyEffectCloud == LoadRemoteDir("root", NullId, "")

\* The listing of the FTP server's working directory (FTP entries carry no
\* id)
ListRemoteDirectory(cwd) ==
    IF cwd = FtpRoot
        THEN <<RemoteEntry(NoId, "p", FALSE), RemoteEntry(NoId, "q", TRUE),
               RemoteEntry(NoId, "s", TRUE)>>
        ELSE <<RemoteEntry(NoId, "r", FALSE)>>

\* The mutant of ShownPath: the path is put together from the entry's name
DerivedPath(l, pwd) == IF l.arg = "into" THEN <<"/", l.path>> ELSE pwd

\* setRemotePath(pwd) of the FTP branch
ShownPath(l, pwd) == pwd

\* navigateTo(entry) of an FTP pane: loadRemoteDir(entry.name)
NavigateToFtp(k) ==
    /\ ~cloudConfig
    /\ entries[k].is_dir
    /\ LoadRemoteDir("into", entries[k].name, "")

\* The mutant of LoadingAfter: setLoading(false) is the last statement of
\* the try block
LoadingAfterSuccessOnly(ok) == IF ok THEN FALSE ELSE remoteLoading

\* finally { setLoading(false) }: reached after the try block and after the
\* catch block
LoadingAfter(ok) == FALSE

\* list_cloud_directory returns, or list_remote_directory does (and
\* get_remote_pwd is invoked)
ListArrives(l, ok) ==
    /\ l \in listings /\ l.stage = "list"
    /\ IF ok /\ ~cloudConfig
         THEN /\ ftpCwd' = ChangeDir(ftpCwd, l.path)
              /\ listings' = (listings \ {l}) \cup
                    {[l EXCEPT !.stage = "pwd", !.files = ListRemoteDirectory(ftpCwd')]}
              /\ UNCHANGED <<pathStack, entries, remotePath, remoteError, remoteLoading,
                             lastDone>>
         ELSE /\ listings' = listings \ {l}
              /\ remoteLoading' = LoadingAfter(ok)
              /\ lastDone' = [arg |-> l.arg, ok |-> ok, depth |-> Len(l.stack),
                              folderId |-> l.folderId, read |-> l.read,
                              readIdx |-> l.readIdx,
                              afterUpToRoot |-> lastDone.arg = "up" /\ lastDone.ok
                                                  /\ lastDone.depth = 1,
                              pwd |-> <<>>,
                              id |-> l.id, late |-> l.id < lastDone.id]
              /\ IF ok /\ l.folderId # UndefinedId
                   THEN /\ pathStack' = NextStack(l)
                        /\ entries' = ListCloudDirectory(l.folderId)
                        /\ remotePath' = Pwd(NextStack(l))
                        /\ UNCHANGED remoteError
                   ELSE /\ remoteError' = "error"
                        /\ entries' = <<>>
                        /\ UNCHANGED <<pathStack, remotePath>>
              /\ UNCHANGED ftpCwd
    /\ UNCHANGED nList

\* get_remote_pwd returns: the rest of loadRemoteDir's FTP branch
PwdArrives(l, ok) ==
    /\ l \in listings /\ l.stage = "pwd"
    /\ listings' = listings \ {l}
    /\ remoteLoading' = LoadingAfter(ok)
    /\ lastDone' = [NoListing EXCEPT !.arg = l.arg, !.ok = ok, !.folderId = l.folderId,
                                     !.pwd = IF ok THEN ftpCwd ELSE <<>>,
                                     !.id = l.id, !.late = l.id < lastDone.id]
    /\ IF ok
         THEN /\ entries' = l.files
              /\ remotePath' = ShownPath(l, ftpCwd)
              /\ UNCHANGED remoteError
         ELSE /\ remoteError' = "error"
              /\ entries' = <<>>
              /\ UNCHANGED remotePath
    /\ UNCHANGED <<pathStack, nList, ftpCwd>>

CloudNext ==
    \/ \E k \in 1..Len(entries) : NavigateTo(k)
    \/ GoUpCloud
    \/ RefreshCloud
    \/ RefreshKeyEffectCloud
    \/ \E l \in listings, ok \in BOOLEAN : ListArrives(l, ok)

\* The remote pane of an FTP connection
FtpNext ==
    \/ \E k \in 1..Len(entries) : NavigateToFtp(k)
    \/ GoUpCloud
    \/ RefreshCloud
    \/ RefreshKeyEffectCloud
    \/ \E l \in listings, ok \in BOOLEAN : ListArrives(l, ok)
    \/ \E l \in listings, ok \in BOOLEAN : PwdArrives(l, ok)

-----------------------------------------------------------------------------
(* RemoteFileTree: the per-entry handlers of the rows and the context menu. *)
(* Each handler is followed to its await and from the backend's answer on;  *)
(* a confirm or prompt the user dismisses ends the handler with no effect   *)
(* and is left out.                                                         *)

\* The handler runs of one behaviour, in the order they start
OpOrder == <<"o1", "o2">>

\* A line of the transfer log written by a per-entry handler
OpMsg(id, text) == [op |-> id, text |-> text]

\* The mutant of MissingId: the id is never found missing
MissingIdNever(entry) == FALSE

\* !entry.id
MissingId(entry) == entry.id = NoId

\* handleDrop's parentId: remotePath, or null for "/ (Cloud Root)" and ""
ParentIdOf(path) ==
    IF path = <<"/ (Cloud Root)">> \/ path = <<>> THEN NullId ELSE path

\* A handler run: its entry, the backend commands it has invoked in order,
\* where it stands ("await": a command is in flight) and how it ended; of
\* handleCopyFile also the commands' arguments (tempPath is
\* downloadDir\.quicksync_temp_<name>) and the answers received, of
\* handleDrop the remoteParentId passed and the path stack at that time
OpRecord(kind, entry, invoked, stage, outcome) ==
    [kind |-> kind, entry |-> entry, invoked |-> invoked, stage |-> stage,
     outcome |-> outcome, relisted |-> FALSE,
     args |-> IF kind = "copy"
                THEN [k \in 1..Len(invoked) |->
                        [remoteName |-> <<entry.name>>,
                         localPath |-> <<".quicksync_temp_", entry.name>>]]
                ELSE IF kind = "drop" /\ cloudConfig
                THEN <<[remoteParentId |-> ParentIdOf(remotePath), stack |-> pathStack]>>
                ELSE <<>>,
     answers |-> <<>>]

\* The handler runs to its first await, or to its return
Begin(kind, entry, texts, invoked, outcome) ==
    /\ Len(ops) < Len(OpOrder)
    /\ ops' = Append(ops, OpRecord(kind, entry, invoked,
                                   IF outcome = "none" THEN "await" ELSE "done", outcome))
    /\ transferMsgs' = transferMsgs \o [k \in 1..Len(texts) |-> OpMsg(OpOrder[Len(ops) + 1], texts[k])]
    /\ UNCHANGED <<cloudConfig, cloudVars>>

OpsInit ==
    /\ cloudConfig = TRUE
    /\ ops = <<>>

\* handleDelete(entry), the confirm accepted
HandleDelete(k) ==
    LET entry == entries[k]
    IN  IF cloudConfig
          THEN IF MissingId(entry)
                 THEN Begin("delete", entry,
                            <<"Deleting", "Cannot delete: cloud entry ID is missing.">>,
                            <<>>, "refused")
                 ELSE Begin("delete", entry, <<"Deleting">>, <<"delete_cloud_file">>, "none")
          ELSE Begin("delete", entry, <<"Deleting">>,
                     <<IF entry.is_dir THEN "delete_remote_dir" ELSE "delete_remote_file">>,
                     "none")

\* handleRename(entry), the prompt answered with another name
HandleRename(k) ==
    LET entry == entries[k]
    IN  IF cloudConfig
          THEN Begin("rename", entry, <<"Renaming", "Cloud rename not yet implemented.">>,
                     <<>>, "refused")
          ELSE Begin("rename", entry, <<"Renaming">>, <<"rename_remote_file">>, "none")

\* handleCopyFile(entry), the prompt answered with Copy_of_<name>.  The menu
\* offers it for files; the handler itself turns a directory away
HandleCopyFile(k) ==
    LET entry == entries[k]
    IN  IF cloudConfig
          THEN /\ ~entry.is_dir
               /\ Begin("copy", entry, <<"Cloud copying is not yet implemented.">>,
                        <<>>, "refused")
          ELSE IF entry.is_dir
          THEN Begin("copy", entry, <<"Copying directories is not yet supported.">>,
                     <<>>, "refused")
          ELSE Begin("copy", entry, <<"Copying">>, <<"download_remote_file">>, "none")

\* handleDownload(entry): the double click, the download button and the menu
\* item of a file
HandleDownload(k) ==
    LET entry == entries[k]
    IN  /\ ~entry.is_dir
        /\ IF cloudConfig
             THEN IF MissingId(entry)
                    THEN Begin("download", entry,
                               <<"Downloading", "Download error: Cloud entry missing ID.">>,
                               <<>>, "refused")
                    ELSE Begin("download", entry, <<"Downloading">>,
                               <<"download_cloud_file">>, "none")
             ELSE Begin("download", entry, <<"Downloading">>, <<"download_remote_file">>, "none")

\* handleDownloadFolder(entry.name): the menu item of a directory
HandleDownloadFolder(k) ==
    LET entry == entries[k]
    IN  /\ entry.is_dir
        /\ Begin("downloadFolder", entry, <<"Downloading folder">>,
                 <<"download_remote_folder">>, "none")

\* handleDrop(e) of the remote pane with one dropped file that has a path
\* (batches of several files are followed in the drop component)
HandleDropRemote ==
    Begin("drop", RemoteEntry(NoId, "dropped", FALSE),
          <<"DEBUG: Remote handleDrop event detected", "DEBUG: Remote files count", "Uploading">>,
          <<IF cloudConfig THEN "upload_cloud_file" ELSE "upload_file">>, "none")

\* What the handler logs when its try block has run to the end
DoneText(kind) == IF kind = "copy" THEN "Copy complete" ELSE "result"

\* What the handler's catch logs
ErrorText(kind) ==
    IF kind = "delete" THEN "Delete error"
    ELSE IF kind = "rename" THEN "Rename error"
    ELSE IF kind = "copy" THEN "Copy error"
    ELSE IF kind = "download" THEN "Download error"
    ELSE IF kind = "drop" THEN "Upload error"
    ELSE "Download Folder error"

\* The mutant of RelistsAfter: the handlers re-list in a finally block
RelistsAlways(kind, ok) == kind \in {"delete", "rename", "copy", "drop"}

\* loadRemoteDir() is the last statement of the try block of handleDelete,
\* handleRename and handleCopyFile, and follows the loop of handleDrop
RelistsAfter(kind, ok) == (ok /\ kind \in {"delete", "rename", "copy"}) \/ kind = "drop"

\* The awaited command of handler run i returns or throws
OpReturns(i, ok) ==
    LET o == ops[i]
        more == ok /\ o.kind = "copy" /\ Len(o.invoked) = 1
    IN  /\ o.stage = "await"
        /\ IF more
             THEN /\ ops' = [ops EXCEPT ![i].invoked = Append(@, "upload_file"),
                                        ![i].answers = Append(@, ok),
                                        ![i].args = Append(@,
                                            [remoteName |-> <<"Copy_of_", o.entry.name>>,
                                             localPath |-> <<".quicksync_temp_", o.entry.name>>])]
                  /\ UNCHANGED <<transferMsgs, cloudVars>>
             ELSE /\ ops' = [ops EXCEPT ![i].stage = "done",
                                        ![i].answers = Append(@, ok),
                                        ![i].outcome = IF ok THEN "ok" ELSE "failed",
                                        ![i].relisted = RelistsAfter(o.kind, ok)]
                  /\ transferMsgs' = Append(transferMsgs,
                          OpMsg(OpOrder[i], IF ok THEN DoneText(o.kind) ELSE ErrorText(o.kind)))
                  /\ IF RelistsAfter(o.kind, ok)
                       THEN LoadRemoteDir("root", NullId, "")
                       ELSE UNCHANGED cloudVars
        /\ UNCHANGED cloudConfig

OpsNext ==
    \/ \E k \in 1..Len(entries) : HandleDelete(k)
    \/ \E k \in 1..Len(entries) : HandleRename(k)
    \/ \E k \in 1..Len(entries) : HandleCopyFile(k)
    \/ \E k \in 1..Len(entries) : HandleDownload(k)
    \/ \E k \in 1..Len(entries) : HandleDownloadFolder(k)
    \/ \E i \in 1..Len(ops), ok \in BOOLEAN : OpReturns(i, ok)
    \/ (\E k \in 1..Len(entries) : cloudConfig /\ NavigateTo(k)) /\ UNCHANGED <<opsVars, transferMsgs>>
    \/ (\E l \in listings, ok \in BOOLEAN : ListArrives(l, ok)) /\ UNCHANGED <<opsVars, transferMsgs>>
    \/ (\E l \in listings, ok \in BOOLEAN : PwdArrives(l, ok)) /\ UNCHANGED <<opsVars, transferMsgs>>

\* The remote pane as a drop target: drops, their uploads' answers,
\* navigation and the listings
UploadNext ==
    \/ HandleDropRemote
    \/ \E i \in 1..Len(ops), ok \in BOOLEAN : OpReturns(i, ok)
    \/ (\E k \in 1..Len(entries) : cloudConfig /\ NavigateTo(k)) /\ UNCHANGED <<opsVars, transferMsgs>>
    \/ (cloudConfig /\ GoUpCloud) /\ UNCHANGED <<opsVars, transferMsgs>>
    \/ (\E l \in listings, ok \in BOOLEAN : ListArrives(l, ok)) /\ UNCHANGED <<opsVars, transferMsgs>>
    \/ (\E l \in listings, ok \in BOOLEAN : PwdArrives(l, ok)) /\ UNCHANGED <<opsVars, transferMsgs>>

-----------------------------------------------------------------------------
(* The icon cache of one tree instance: getFileIcon and FileIconRenderer.  *)
(* File names are character sequences.                                     *)

FileNames ==
    {<<"a", ".", "t">>, <<"b", ".", "T">>, <<"c", ".", "m">>, <<"d">>, <<"e", ".">>}

\* filename.match(/\.([^.]+)$/): the characters after the last dot, if any
\* dot has at least one character after it; lowercased.  <<>> is no match.
ExtOf(name) ==
    LET dots == {i \in 1..Len(name) : name[i] = "."}
    IN  IF dots = {} THEN <<>>
        ELSE LET last == CHOOSE i \in dots : \A j \in dots : j <= i
             IN  [k \in 1..(Len(name) - last) |-> ToLowerCase(name[last + k])]

Exts == {ExtOf(n) : n \in FileNames} \ {<<>>}

\* iconCache[ext] when the key is missing
Undefined == "undefined"

\* The failure sentinel
Sentinel == ""

IconData == "data:image/png"

\* The mutant of IsUndefined: a truthiness test, which the sentinel fails
IsFalsy(v) == v \in {Undefined, Sentinel}

\* v === undefined
IsUndefined(v) == v = Undefined

\* getFileIcon's cache check: iconCache[ext] !== undefined returns the entry
CacheHit(cache, ext) == ~IsUndefined(cache[ext])

\* A FileIconRenderer effect that ends in a backend call: the row has an
\* extension, its cachedIcon is undefined, and getFileIcon misses the cache
RowLooksUp(name, cache) ==
    /\ ExtOf(name) # <<>>
    /\ IsUndefined(cache[ExtOf(name)])
    /\ ~CacheHit(cache, ExtOf(name))

\* How many rows of a render look up extension e
LookupsFor(e, shown, cache) ==
    Cardinality({n \in shown : ExtOf(n) = e /\ RowLooksUp(n, cache)})

Sum(f, S) ==
    LET RECURSIVE Acc(_)
        Acc(T) == IF T = {} THEN 0
                  ELSE LET x == CHOOSE y \in T : TRUE IN f[x] + Acc(T \ {x})
    IN  Acc(S)

IconInit ==
    /\ iconCache = [e \in Exts |-> Undefined]
    /\ rows = {}
    /\ iconCalls = [e \in Exts |-> 0]
    /\ issued = [e \in Exts |-> 0]
    /\ failed = {}
    /\ lateCalls = {}
    /\ seenAfter = {}

\* The tree renders with the rows `shown` under the cache `cache`: getFileIcon
\* is a new function in every render, so the effect of every row runs again
RenderRows(shown, cache) ==
    /\ Sum(issued, Exts) + Sum([e \in Exts |-> LookupsFor(e, shown, cache)], Exts)
          <= MaxIconCalls
    /\ rows' = shown
    /\ iconCalls' = [e \in Exts |-> iconCalls[e] + LookupsFor(e, shown, cache)]
    /\ issued' = [e \in Exts |-> issued[e] + LookupsFor(e, shown, cache)]
    /\ lateCalls' = lateCalls \cup
          {e \in failed : LookupsFor(e, shown, cache) > 0}
    /\ seenAfter' = seenAfter \cup
          {e \in failed : \E n \in shown : ExtOf(n) = e}

\* A re-render for a reason outside the cache (a listing, a toggle, a search
\* keystroke, a drag): the rows on screen may change
Render(shown) ==
    /\ RenderRows(shown, iconCache)
    /\ UNCHANGED <<iconCache, failed>>

\* get_file_icon returns: the icon, or the sentinel on failure, is stored and
\* the tree renders again
IconArrives(e, ok) ==
    /\ iconCalls[e] > 0
    /\ iconCache' = [iconCache EXCEPT ![e] = IF ok THEN IconData ELSE Sentinel]
    /\ failed' = IF ok THEN failed ELSE failed \cup {e}
    /\ Sum(issued, Exts)
          + Sum([x \in Exts |-> LookupsFor(x, rows, iconCache')], Exts) <= MaxIconCalls
    /\ rows' = rows
    /\ iconCalls' = [x \in Exts |->
          iconCalls[x] + LookupsFor(x, rows, iconCache') - (IF x = e THEN 1 ELSE 0)]
    /\ issued' = [x \in Exts |-> issued[x] + LookupsFor(x, rows, iconCache')]
    /\ lateCalls' = lateCalls \cup
          {x \in failed' : LookupsFor(x, rows, iconCache') > 0}
    /\ seenAfter' = seenAfter \cup
          {x \in failed' : \E n \in rows : ExtOf(n) = x}

IconNext ==
    \/ \E shown \in SUBSET FileNames : Render(shown)
    \/ \E e \in Exts, ok \in BOOLEAN : IconArrives(e, ok)

-----------------------------------------------------------------------------
(* useConfigStore: the zustand store of the saved connections.  A          *)
(* configuration is the pair of its connection lists, each a list of ids.  *)

\* The configurations saveConfig may be called with
Configs == [ftp_connections : {<<>>, <<"f1">>}, cloud_connections : {<<>>, <<"c1">>}]

\* The saveConfig calls of one run, in the order they are made
SaveOrder == <<"s1", "s2", "s3">>

\* create(...): config: { ftp_connections: [], cloud_connections: [] },
\* loading: true, error: null
StoreInit ==
    /\ store = [config |-> [ftp_connections |-> <<>>, cloud_connections |-> <<>>],
                loading |-> TRUE, error |-> NoError]
    /\ saves = <<>>

\* saveConfig(newConfig) up to its await:
\* invoke('save_config', { config: newConfig })
SaveConfig(newConfig) ==
    /\ Len(saves) < Len(SaveOrder)
    /\ saves' = Append(saves, [id |-> SaveOrder[Len(saves) + 1], newConfig |-> newConfig,
                               arg |-> [config |-> newConfig], stage |-> "await",
                               before |-> store, after |-> store])
    /\ UNCHANGED store

\* The mutant of SaveReturns: the new configuration is stored whatever the
\* backend answered
SaveReturnsStoresAnyway(i, ok) ==
    /\ saves[i].stage = "await"
    /\ store' = IF ok THEN [store EXCEPT !.config = saves[i].newConfig]
                 ELSE [store EXCEPT !.config = saves[i].newConfig,
                                    !.error = "save_config failed"]
    /\ saves' = [saves EXCEPT ![i].stage = IF ok THEN "saved" ELSE "failed",
                              ![i].before = store, ![i].after = store']

\* save_config returns: set({ config: newConfig }), or set({ error }) in the
\* catch block
SaveReturns(i, ok) ==
    /\ saves[i].stage = "await"
    /\ store' = IF ok THEN [store EXCEPT !.config = saves[i].newConfig]
                 ELSE [store EXCEPT !.error = "save_config failed"]
    /\ saves' = [saves EXCEPT ![i].stage = IF ok THEN "saved" ELSE "failed",
                              ![i].before = store, ![i].after = store']

-----------------------------------------------------------------------------

Init ==
    TreeInit /\ XferInit /\ ConnInit /\ DropInit /\ CloudInit /\ IconInit /\ OpsInit /\ StoreInit

\* The same, with the remote pane mounted for a cloud or for an FTP connection
InitEitherPane ==
    /\ TreeInit /\ XferInit /\ ConnInit /\ DropInit /\ CloudInit /\ IconInit /\ StoreInit
    /\ cloudConfig \in BOOLEAN
    /\ ops = <<>>

Next ==
    \/ TreeNext /\ UNCHANGED <<xferVars, dropVars, cloudVars, iconVars, opsVars, store, saves>>
    \/ XferNext /\ UNCHANGED <<treeVars, cloudVars, iconVars, opsVars, store, saves>>
    \/ DropNext /\ UNCHANGED <<treeVars, cloudVars, iconVars, opsVars, store, saves>>
    \/ ConnDropNext /\ UNCHANGED <<treeVars, cloudVars, iconVars, opsVars, store, saves>>
    \/ CloudNext /\ UNCHANGED <<treeVars, xferVars, dropVars, iconVars, opsVars, store, saves>>
    \/ IconNext /\ UNCHANGED <<treeVars, xferVars, dropVars, cloudVars, opsVars, store, saves>>
    \/ OpsNext /\ UNCHANGED <<treeVars, xferVars, connVars, iconVars, store, saves>>
    \/ (\/ \E c \in Configs : SaveConfig(c)
        \/ \E i \in 1..Len(saves), ok \in BOOLEAN : SaveReturns(i, ok))
       /\ UNCHANGED <<treeVars, xferVars, dropVars, cloudVars, iconVars, opsVars>>

Spec == Init /\ [][Next]_vars

SpecTree == Init /\ [][TreeNext /\ UNCHANGED <<xferVars, dropVars, cloudVars, iconVars, opsVars, store, saves>>]_vars

SpecXfer == Init /\ [][XferNext /\ UNCHANGED <<treeVars, cloudVars, iconVars, opsVars, store, saves>>]_vars

SpecDrop == Init /\ [][DropNext /\ UNCHANGED <<treeVars, cloudVars, iconVars, opsVars, store, saves>>]_vars

SpecCloud ==
    Init /\ [][CloudNext /\ UNCHANGED <<treeVars, xferVars, dropVars, iconVars, opsVars, store, saves>>]_vars

SpecIcon ==
    Init /\ [][IconNext /\ UNCHANGED <<treeVars, xferVars, dropVars, cloudVars, opsVars, store, saves>>]_vars

SpecConn == Init /\ [][ConnDropNext /\ UNCHANGED <<treeVars, cloudVars, iconVars, opsVars, store, saves>>]_vars

\* The rootPath prop (get_home_dir's answer): the home directory of the
\* listings above, a file-system root, a drive root, a directory under one
RootPaths == {HomePath, <<"/">>, <<"C", ":", "\\">>, <<"C", ":", "\\", "h">>}

\* The mount of the local pane for any of these root paths
InitAnyRoot ==
    /\ XferInit /\ ConnInit /\ DropInit /\ CloudInit /\ IconInit /\ OpsInit /\ StoreInit
    /\ tree = <<>>
    /\ currentPath \in RootPaths
    /\ treeError = NoError
    /\ searchQuery = <<>>
    /\ fetches = {RootFetch(1, currentPath)}
    /\ nFetch = 1
    /\ expandFetches = ZeroCounts
    /\ snap = NoSnap
    /\ reexp = NoReexp
    /\ lastRoot = NoRootDone

SpecRoots ==
    InitAnyRoot /\ [][TreeNext /\ UNCHANGED <<xferVars, dropVars, cloudVars, iconVars, opsVars, store, saves>>]_vars

\* The mount of the remote pane for an FTP connection
InitFtp ==
    /\ TreeInit /\ XferInit /\ ConnInit /\ DropInit /\ CloudInit /\ IconInit /\ StoreInit
    /\ cloudConfig = FALSE
    /\ ops = <<>>

SpecFtp ==
    InitFtp /\ [][FtpNext /\ UNCHANGED <<treeVars, xferVars, dropVars, iconVars, opsVars, store, saves>>]_vars

SpecOps ==
    InitEitherPane /\ [][OpsNext /\ UNCHANGED <<treeVars, xferVars, connVars, iconVars, store, saves>>]_vars

SpecUpload ==
    InitEitherPane /\ [][UploadNext /\ UNCHANGED <<treeVars, xferVars, connVars, iconVars, store, saves>>]_vars

\* The configuration store under overlapping saves
SpecStore ==
    /\ Init
    /\ [][(\/ \E c \in Configs : SaveConfig(c)
           \/ \E i \in 1..Len(saves), ok \in BOOLEAN : SaveReturns(i, ok))
          /\ UNCHANGED <<treeVars, xferVars, dropVars, cloudVars, iconVars, opsVars>>]_vars

\* The remote pane of either kind, every backend call returning in the end:
\* a call in flight is answered (with success or with an error) at some time
SpecRemoteLive ==
    /\ InitEitherPane
    /\ [][(\/ \E k \in 1..Len(entries) : cloudConfig /\ NavigateTo(k)
           \/ \E k \in 1..Len(entries) : NavigateToFtp(k)
           \/ GoUpCloud
           \/ RefreshCloud
           \/ RefreshKeyEffectCloud
           \/ \E l \in listings, ok \in BOOLEAN : ListArrives(l, ok)
           \/ \E l \in listings, ok \in BOOLEAN : PwdArrives(l, ok))
          /\ UNCHANGED <<treeVars, xferVars, dropVars, iconVars, opsVars, store, saves>>]_vars
    /\ WF_vars((\E l \in listings, ok \in BOOLEAN : ListArrives(l, ok) \/ PwdArrives(l, ok))
               /\ UNCHANGED <<treeVars, xferVars, dropVars, iconVars, opsVars, store, saves>>)

-----------------------------------------------------------------------------
(* Claims about FileTree.toggleFolder *)

\* C1: between two root loads, list_directory is issued for a directory by
\* toggleFolder at most once, and never for a node whose children are present;
\* collapsing and re-expanding while the first fetch is in flight issues no
\* further fetch.
C1_FetchedOnce ==
    /\ \A d \in DirPaths : expandFetches[d] <= 1
    /\ \A f \in fetches : f.kind = "expand" => ~f.hadKids

-----------------------------------------------------------------------------
(* Claims about the transfer-progress listener *)

\* The record of an id is the payload of its last event until a removal
\* timer or Clear takes it away: an event always (re)creates the record.
RecordIsLastPayload ==
    \A id \in TransferIds :
        (lastEvt[id].seen /\ ~lastEvt[id].removed /\ ~lastEvt[id].cleared)
            => (id \in DOMAIN activeTransfers /\ activeTransfers[id] = lastEvt[id].p)

\* Once more than RemovalDelay has passed since a complete event that no
\* other event followed, the id is absent.
AbsentAfterDelay ==
    \A id \in TransferIds :
        (lastEvt[id].seen /\ lastEvt[id].p.status = "complete"
            /\ now > lastEvt[id].at + RemovalDelay)
            => id \notin DOMAIN activeTransfers

\* C3 as stated: after a complete event for t that no event for t follows
\* (and no Clear), the record stays until RemovalDelay has elapsed and is
\* absent afterwards; an event after the removal creates a fresh record.
C3_StaysThenRemoved ==
    /\ RecordIsLastPayload
    /\ AbsentAfterDelay
    /\ \A id \in TransferIds :
          (lastEvt[id].seen /\ lastEvt[id].p.status = "complete"
              /\ now < lastEvt[id].at + RemovalDelay)
              => ~lastEvt[id].removed

\* C3 amended: the record stays for the whole delay when no removal armed by
\* an earlier complete event of the same id was still pending at the event.
C3_StaysUnlessEarlierRemovalPending ==
    /\ RecordIsLastPayload
    /\ AbsentAfterDelay
    /\ \A id \in TransferIds :
          (lastEvt[id].seen /\ lastEvt[id].p.status = "complete"
              /\ ~lastEvt[id].pendingBefore
              /\ now < lastEvt[id].at + RemovalDelay)
              => ~lastEvt[id].removed

\* A record was removed by its timer and a later event of the same id has
\* created it again.
C3_Witness ==
    \E id \in TransferIds :
        /\ lastEvt[id].seen /\ lastEvt[id].afterRemoval
        /\ lastEvt[id].at >= RemovalDelay
        /\ id \in DOMAIN activeTransfers

-----------------------------------------------------------------------------
(* Drop batches: what a batch logged, called and refreshed                 *)

IsLog(e) == e.ev = "log"

IsOutcome(e) == e.ev = "log" /\ e.kind \in {"result", "error", "nopath"}

IsCall(e) == e.ev = "call"

IsRefresh(e) == e.ev = "refresh"

LogsOf(b) == SelectSeq(blog[b], IsLog)

OutcomesOf(b) == SelectSeq(blog[b], IsOutcome)

CallEvsOf(b) == SelectSeq(blog[b], IsCall)

WithPath(bt) == {j \in 1..bt.n : j \notin bt.noPath}

EverCleared == \E id \in TransferIds : lastEvt[id].cleared

IsOfB1(m) == m.batch = BatchOrder[1]

\* C4 as stated: a drop batch of N files, some of whose backend calls fail,
\* contributes exactly N entries to the transfer log, one per file, in drop
\* order.
C4_ExactlyNEntries ==
    \A b \in BatchIds :
        (batches[b].phase = "done" /\ \E e \in Range(LogsOf(b)) : e.kind = "error") =>
            /\ Len(LogsOf(b)) = batches[b].n
            /\ \A k \in 1..Len(LogsOf(b)) : LogsOf(b)[k].file = k

\* C4 amended: a failed call does not end the batch: every file that has a
\* path gets its backend call, in drop order; the batch logs exactly one
\* outcome line per file (result, error or no-path), in drop order; before
\* each call it also logs a start line, and a pane drop logs two DEBUG lines
\* first, so a finished batch of N files has contributed N + (files with a
\* path) + (2 for a pane drop) entries; until the log is cleared those are
\* the batch's entries of transferMsgs.
C4_OneOutcomePerFileInOrder ==
    \A b \in BatchIds :
        LET bt == batches[b]
            done == IF bt.phase = "done" THEN bt.n ELSE bt.i - 1
        IN  bt.phase # "none" =>
              /\ Len(OutcomesOf(b)) = done
              /\ \A k \in 1..done :
                    /\ OutcomesOf(b)[k].file = k
                    /\ (OutcomesOf(b)[k].kind = "nopath") <=> (k \in bt.noPath)
              /\ {e.file : e \in Range(CallEvsOf(b))}
                    = {j \in WithPath(bt) : j <= (IF bt.phase = "done" THEN bt.n ELSE bt.i)}
              /\ \A k \in 1..Len(LogsOf(b)) :
                    LogsOf(b)[k].kind = "start" =>
                        /\ LogsOf(b)[k].file \in WithPath(bt)
                        /\ k < Len(LogsOf(b)) =>
                              /\ LogsOf(b)[k + 1].file = LogsOf(b)[k].file
                              /\ LogsOf(b)[k + 1].kind \in {"result", "error"}
              /\ bt.phase = "done" =>
                    Len(LogsOf(b)) = bt.n + Cardinality(WithPath(bt))
                                        + Len(DebugMsgs(b, bt.kind))
              /\ (~EverCleared /\ b = BatchOrder[1]) =>
                    SelectSeq(transferMsgs, IsOfB1)
                        = [k \in 1..Len(LogsOf(b)) |->
                              Msg(b, LogsOf(b)[k].file, LogsOf(b)[k].kind)]

\* A finished batch whose first file failed and whose second file was called
C4_Witness ==
    \E b \in BatchIds :
        /\ batches[b].phase = "done" /\ batches[b].n >= 2
        /\ Ev("log", 1, "error") \in Range(blog[b])
        /\ \E e \in Range(blog[b]) : e.ev = "call" /\ e.file = 2

\* C5: a drop dispatched while no remote connection is active (no connect
\* has succeeded, or a disconnect followed the last successful connect)
\* sends every file to copy_to_local and none to an upload operation.
C5_NoActiveRemoteAllLocal ==
    \A b \in BatchIds :
        (batches[b].phase # "none" /\ ~batches[b].activeAtDispatch) =>
            \A e \in Range(blog[b]) : e.ev = "call" => e.kind = "copy_to_local"

\* C6: at most one backend call of a batch is in flight at any time; a
\* batch's calls start in drop order, each only after the call before it
\* has returned; this holds for each batch while batches overlap.
C6_SequentialPerBatch ==
    \A b \in BatchIds :
        /\ Cardinality({c \in calls : c.batch = b}) <= 1
        /\ \A k1, k2 \in 1..Len(blog[b]) :
              (k1 < k2 /\ blog[b][k1].ev = "call" /\ blog[b][k2].ev = "call") =>
                  /\ blog[b][k1].file < blog[b][k2].file
                  /\ \E r \in (k1 + 1)..(k2 - 1) :
                        blog[b][r].ev = "ret" /\ blog[b][r].file = blog[b][k1].file
        /\ \A c \in calls : c.batch = b =>
              /\ batches[b].phase = "calling" /\ batches[b].i = c.file
              /\ CallEvsOf(b)[Len(CallEvsOf(b))].file = c.file

\* Two batches each have a call in flight, one of them for its second file
C6_Witness ==
    \E c1, c2 \in calls :
        /\ c1.batch # c2.batch
        /\ c1.file = 2
        /\ Ev("ret", 1, c1.op) \in Range(blog[c1.batch])

DoneWithFiles(kind) ==
    {b \in BatchIds : batches[b].phase = "done" /\ batches[b].n >= 1
                        /\ batches[b].kind = kind}

\* C7: a batch with at least one file issues exactly one refresh of the
\* affected pane(s) (loadDir for a local-pane drop, loadRemoteDir for a
\* remote-pane drop, a refreshKey bump for a native drop), after the last
\* file's outcome is logged, whatever the outcomes were; an empty batch and
\* a batch still running have issued none.
C7_OneRefreshAfterLastOutcome ==
    /\ \A b \in BatchIds :
          LET n == Len(blog[b])
          IN  IF batches[b].phase = "done" /\ batches[b].n >= 1
                THEN /\ Len(SelectSeq(blog[b], IsRefresh)) = 1
                     /\ blog[b][n].ev = "refresh"
                     /\ Len(OutcomesOf(b)) = batches[b].n
                ELSE Len(SelectSeq(blog[b], IsRefresh)) = 0
    /\ paneRefreshes.local = Cardinality(DoneWithFiles("local"))
    /\ paneRefreshes.remote = Cardinality(DoneWithFiles("remote"))
    /\ refreshKey = Cardinality(DoneWithFiles("native"))

\* A finished batch whose last file failed, and one with a file skipped
C7_Witness ==
    /\ \E b \in BatchIds :
          /\ batches[b].phase = "done" /\ batches[b].n >= 2
          /\ Ev("log", batches[b].n, "error") \in Range(blog[b])
    /\ \E b \in BatchIds :
          /\ batches[b].phase = "done" /\ batches[b].noPath # {}

-----------------------------------------------------------------------------
(* Cloud navigation and the icon cache                                     *)

UpIsSafe(l, depth) ==
    l.arg = "up" =>
        /\ l.folderId # UndefinedId
        /\ l.read => /\ l.readIdx >= 0
                     /\ l.readIdx < depth
        /\ depth <= 1 => (~l.read /\ l.folderId = NullId)

\* C8: in cloud mode goUp at depth 1 asks for the root folder (folderId
\* null) and, when that listing succeeds, leaves the stack empty; a further
\* goUp at the root asks for the root again and leaves the stack empty; the
\* stack depth is never below 0 and goUp never reads an element below index
\* 0 (nor asks for the id of a missing element).  A listing that fails
\* leaves the stack as it was.
C8_GoUpNeverUnderflows ==
    /\ Len(pathStack) >= 0
    /\ \A l \in listings : UpIsSafe(l, Len(l.stack))
    /\ UpIsSafe(lastDone, lastDone.depth)
    /\ (lastDone.arg = "up" /\ lastDone.ok /\ lastDone.depth <= 1) =>
          /\ pathStack = <<>>
          /\ entries = ListCloudDirectory(NullId)
          /\ remotePath = Pwd(<<>>)

\* goUp at depth 1 returned to the root, and a further goUp at the root has
\* returned too
C8_Witness ==
    /\ lastDone.arg = "up" /\ lastDone.ok /\ lastDone.depth = 0
    /\ lastDone.afterUpToRoot
    /\ pathStack = <<>>

\* C9: once a get_file_icon lookup of an extension has failed and the
\* sentinel is stored, no render or resolve of that extension issues
\* get_file_icon again.
C9_NoLookupAfterSentinel ==
    /\ lateCalls = {}
    /\ \A e \in Exts : iconCache[e] = Sentinel => e \in failed

\* A row of an extension was rendered after the extension's sentinel was
\* stored
C9_Witness == seenAfter # {}

\* C10: at most one get_file_icon call per extension over the life of the
\* tree instance.
C10_OneLookupPerExtension == \A e \in Exts : issued[e] <= 1

-----------------------------------------------------------------------------
(* Claims about the local tree's filter, errors and node states            *)

\* The name holds the query at some offset, letter case aside
ContainsIgnoringCase(name, query) ==
    \E off \in 0..(Len(name) - Len(query)) :
        \A k \in 1..Len(query) : ToLowerCase(name[off + k]) = ToLowerCase(query[k])

MatchingPositions ==
    {i \in 1..Len(tree) : ContainsIgnoringCase(tree[i].name, searchQuery)}

KthMatch(k) ==
    CHOOSE i \in MatchingPositions : Cardinality({j \in MatchingPositions : j < i}) = k - 1

\* C11: the filter shows exactly the root-level nodes whose name contains
\* the query as a case-insensitive substring, in their original order and
\* as they are in the tree (children are neither searched nor changed);
\* typing in the search box or clearing it leaves the tree unchanged.
C11_FilterIsView ==
    /\ [](/\ Len(VisibleNodes) = Cardinality(MatchingPositions)
          /\ \A k \in 1..Len(VisibleNodes) : VisibleNodes[k] = tree[KthMatch(k)])
    /\ [][searchQuery' # searchQuery => tree' = tree]_vars

\* A query that only the second of three nodes matches, by a letter of the
\* other case, while the first node is expanded with fetched children
C11_Witness ==
    /\ searchQuery = <<"b">>
    /\ Len(tree) = 3
    /\ VisibleNodes = <<tree[2]>>
    /\ tree[1].expanded /\ tree[1].children.present /\ Len(tree[1].children.kids) > 0

\* C12: a list_directory failure (the step that sets the error string, for
\* the root fetch, a refresh, a refresh-token reload or an expand) leaves
\* every materialized node as it was: same nodes, same children, expanded
\* and loading.
C12_FailureLeavesNodes ==
    [][(treeError = NoError /\ treeError' # NoError) => tree' = tree]_vars

\* C14: a directory node's children is present-but-empty only if a
\* successful listing of that directory returned no entries (the file
\* system does not change, so a successful listing of a directory returns
\* ListDirectory of its path); a node whose expand fetch is pending has
\* children absent.
C14_EmptyMeansListedEmpty ==
    \A n \in AllNodes(tree) :
        /\ (n.is_dir /\ n.children = Present(<<>>)) => ListDirectory(n.path) = <<>>
        /\ (\E f \in fetches : f.kind = "expand" /\ f.path = n.path) => ~n.children.present

\* C15: a node has loading = true only if an expand fetch issued for that
\* node's directory is in flight.
C15_LoadingMeansFetchInFlight ==
    \A n \in AllNodes(tree) :
        n.loading => \E f \in fetches : f.kind = "expand" /\ f.path = n.path

\* C16: when a refresh of the current level has completed successfully, the
\* level's nodes are exactly the new listing, each with children absent,
\* expanded = false and loading = false (deeper expansion state is gone and
\* a node stuck with loading = true is shown afresh).
C16_RefreshGivesFreshLevel ==
    (lastRoot.valid /\ lastRoot.ok /\ lastRoot.refresh) =>
        LET listed == ListDirectory(lastRoot.path)
        IN  /\ Len(tree) = Len(listed)
            /\ \A i \in 1..Len(tree) :
                  /\ tree[i].name = listed[i].name
                  /\ tree[i].path = listed[i].path
                  /\ tree[i].is_dir = listed[i].is_dir
                  /\ ~tree[i].children.present
                  /\ ~tree[i].expanded
                  /\ ~tree[i].loading

\* A successful refresh has just replaced a level that held expanded nodes
\* and a node stuck with loading = true
C16_Witness ==
    /\ lastRoot.valid /\ lastRoot.ok /\ lastRoot.refresh
    /\ lastRoot.path = currentPath
    /\ lastRoot.discarded /\ lastRoot.stuck
    /\ Len(tree) = 3

-----------------------------------------------------------------------------
(* Claims about the remote tree's listings                                 *)

\* C13: when a remote directory listing fails (the step that sets the
\* remote tree's error string), the entries displayed before and the
\* navigation address (remotePath and the cloud path stack) are unchanged.
C13_ListFailureLeavesView ==
    [][(remoteError = NoError /\ remoteError' # NoError) =>
            /\ entries' = entries
            /\ remotePath' = remotePath
            /\ pathStack' = pathStack]_vars

-----------------------------------------------------------------------------
(* Claims about the remote tree's per-entry operations and re-lists        *)

\* C17: a delete, rename or copyAs whose backend round-trip has ended, in
\* success or in failure, has been followed by a re-list of the current
\* directory.
C17_RelistAfterRoundTrip ==
    \A i \in 1..Len(ops) :
        (ops[i].kind \in {"delete", "rename", "copy"} /\ ops[i].outcome \in {"ok", "failed"})
            => ops[i].relisted

\* The id of the folder on display: the top of the path stack, null at the
\* root
TopId(stack) == IF Len(stack) = 0 THEN NullId ELSE stack[Len(stack)].id

\* C18: in cloud mode a re-list of the current directory (loadRemoteDir()
\* of the Refresh button, of the refresh effect, of the handlers) asks for
\* the folder whose id is at the top of the path stack, and its completion
\* leaves the path stack unchanged.
C18_RelistKeepsFolder ==
    /\ [](\A l \in listings : l.arg = "root" => l.folderId = TopId(l.stack))
    /\ [][\A l \in listings :
            (l \notin listings' /\ l.arg = "root") => pathStack' = pathStack]_vars

\* The lines by which a handler refuses to go to the backend
RefusalTexts ==
    {"Cannot delete: cloud entry ID is missing.", "Cloud rename not yet implemented.",
     "Download error: Cloud entry missing ID."}

\* The transfer log holds a line of handler run i with one of the texts
Logged(i, texts) ==
    \E k \in 1..Len(transferMsgs) :
        transferMsgs[k].op = OpOrder[i] /\ transferMsgs[k].text \in texts

\* C19: in cloud mode a delete, rename or download of an entry without id
\* invokes no backend command and writes an explicit error line to the
\* transfer log.
C19_NoIdRefused ==
    cloudConfig =>
        \A i \in 1..Len(ops) :
            (ops[i].kind \in {"delete", "rename", "download"} /\ ops[i].entry.id = NoId)
                => (ops[i].invoked = <<>> /\ Logged(i, RefusalTexts))

\* A delete and a download of entries without id have both been refused
C19_Witness ==
    /\ cloudConfig
    /\ \E i, j \in 1..Len(ops) :
          /\ ops[i].kind = "delete" /\ ops[i].entry.id = NoId /\ ops[i].entry.is_dir
          /\ ops[j].kind = "download" /\ ops[j].entry.id = NoId
          /\ Logged(i, {"Cannot delete: cloud entry ID is missing."})
          /\ Logged(j, {"Download error: Cloud entry missing ID."})

\* The lines by which a handler reports an operation the provider lacks
NotSupportedTexts == {"Cloud copying is not yet implemented."}

\* C20: in cloud mode copyAs and downloadFolder write a not-supported line
\* to the transfer log and invoke no backend command at all (so none of
\* download_remote_file, upload_file, download_remote_folder, and nothing
\* a second time).
C20_CloudUnsupportedNoBackend ==
    cloudConfig =>
        \A i \in 1..Len(ops) :
            ops[i].kind \in {"copy", "downloadFolder"}
                => (ops[i].invoked = <<>> /\ Logged(i, NotSupportedTexts))

-----------------------------------------------------------------------------
(* Claims about the remote tree's addresses                                *)

\* C21: in FTP mode, after a navigateInto, goUp or refresh that succeeded,
\* the remotePath on display is the working directory get_remote_pwd
\* returned to that call after its listing; it is not put together on the
\* client from the entry's name or from the path shown before.
C21_PathIsBackendPwd ==
    (~cloudConfig /\ lastDone.arg # "none" /\ lastDone.ok) => remotePath = lastDone.pwd

\* The link s was opened and the path on display is the directory the
\* server resolved it to
C21_Witness ==
    /\ ~cloudConfig /\ lastDone.arg = "into" /\ lastDone.ok /\ lastDone.folderId = "s"
    /\ remotePath = <<"/", "q">>
    /\ entries = ListRemoteDirectory(<<"/", "q">>)

-----------------------------------------------------------------------------
(* Claims about the transfer-progress listener's frame                     *)

\* The step is a progress event of transfer id (the event is the last one
\* seen for id, at this instant)
IsEventOf(id) ==
    /\ nEvents' = nEvents + 1
    /\ lastEvt'[id].seen /\ lastEvt'[id].at = now
    /\ (\E o \in TransferIds : lastEvt'[o] # lastEvt[o]) => lastEvt'[id] # lastEvt[id]

\* After the step id holds payload p and every other id is as it was
OnlyRecordSet(id, p) ==
    /\ id \in DOMAIN activeTransfers' /\ activeTransfers'[id] = p
    /\ \A o \in TransferIds \ {id} :
          /\ o \in DOMAIN activeTransfers' <=> o \in DOMAIN activeTransfers
          /\ o \in DOMAIN activeTransfers => activeTransfers'[o] = activeTransfers[o]

\* C22: a progress event of transfer id A creates A's record when there is
\* none and otherwise replaces it by the event's payload, and leaves the
\* records of all other ids as they were, however events of distinct ids
\* interleave.
C22_EventTouchesOwnRecord ==
    [][(nEvents' = nEvents + 1) =>
          \E id \in TransferIds : IsEventOf(id) /\ OnlyRecordSet(id, lastEvt'[id].p)]_vars

\* Three events of two ids, none complete and no Clear since: both records
\* are there, each with the last payload of its id
C22_Witness ==
    /\ nEvents = 3 /\ refreshKey = 0
    /\ DOMAIN activeTransfers = TransferIds
    /\ \A id \in TransferIds : ~lastEvt[id].cleared /\ activeTransfers[id] = lastEvt[id].p
    /\ activeTransfers["t1"].progress = 2 /\ activeTransfers["t2"].status = "error"

\* C23: a progress event with status complete bumps refreshKey by one and
\* schedules a removal of its id's record (RemovalDelay later); a progress
\* event with any other status leaves refreshKey as it was and schedules
\* nothing.
C23_OnlyCompleteBumpsAndSchedules ==
    [][(nEvents' = nEvents + 1) =>
          \E id \in TransferIds :
              /\ IsEventOf(id)
              /\ IF lastEvt'[id].p.status = "complete"
                   THEN /\ refreshKey' = refreshKey + 1
                        /\ [id |-> id, due |-> now + RemovalDelay] \in timers'
                        /\ timers \subseteq timers'
                   ELSE /\ refreshKey' = refreshKey
                        /\ timers' = timers]_vars

\* A complete event of t1 has bumped the token and left its removal
\* pending; an in-progress and an error event have done neither
C23_Witness ==
    /\ nEvents = 3 /\ refreshKey = 1
    /\ lastEvt["t1"].seen /\ lastEvt["t1"].p.status = "complete"
    /\ lastEvt["t2"].seen /\ lastEvt["t2"].p.status = "error"
    /\ timers = {[id |-> "t1", due |-> lastEvt["t1"].at + RemovalDelay]}
    /\ now = lastEvt["t1"].at

-----------------------------------------------------------------------------
(* Claims about FileTree.goUp                                              *)

\* The file-system roots: "/" and a drive root
FsRoots == {<<"/">>, <<"C", ":", "\\">>}

\* The parent directory of a path that is not a root: the path without its
\* last component; the separator that ends a root stays
DirName(path) ==
    LET i == CHOOSE k \in SepPositions(path) : \A j \in SepPositions(path) : j <= k
    IN  IF SubSeq(path, 1, i) \in FsRoots THEN SubSeq(path, 1, i) ELSE SubSeq(path, 1, i - 1)

\* C24: when the current root path is a file-system root, goUp leaves the
\* current path and the tree as they are and issues no fetch (the handler
\* has no effect).
C24_GoUpAtRootIsNoOp == currentPath \in FsRoots => ~ENABLED GoUp

\* C28: on a path that is not a file-system root (a first-level directory
\* under the root included) goUp sets the current root path to the parent
\* directory (while the run's fetches last).
C28_GoUpSetsParent ==
    (currentPath \notin FsRoots /\ SepPositions(currentPath) # {} /\ nFetch < MaxFetch)
        => ENABLED (GoUp /\ currentPath' = DirName(currentPath))

-----------------------------------------------------------------------------
(* Claims about handleCopyFile                                             *)

\* C25: copyAs on FTP invokes download_remote_file to a temporary local
\* path and then upload_file from that path under the new name, in that
\* order; upload_file is invoked only after download_remote_file succeeded,
\* the re-list happens only after upload_file succeeded, and copyAs on a
\* directory invokes nothing.
C25_CopyIsDownloadThenUpload ==
    ~cloudConfig =>
        \A i \in 1..Len(ops) :
            ops[i].kind = "copy" =>
                LET o == ops[i]
                    temp == <<".quicksync_temp_", o.entry.name>>
                IN  /\ o.entry.is_dir => o.invoked = <<>>
                    /\ o.invoked \in {<<>>, <<"download_remote_file">>,
                                      <<"download_remote_file", "upload_file">>}
                    /\ Len(o.invoked) >= 1 =>
                          o.args[1] = [remoteName |-> <<o.entry.name>>, localPath |-> temp]
                    /\ Len(o.invoked) = 2 =>
                          /\ o.answers[1]
                          /\ o.args[2] = [remoteName |-> <<"Copy_of_", o.entry.name>>,
                                          localPath |-> temp]
                    /\ o.relisted => (Len(o.answers) = 2 /\ o.answers[2])

\* One copy ran through download, upload and re-list; another one, of a
\* directory, was turned away
C25_Witness ==
    /\ ~cloudConfig
    /\ \E i, j \in 1..Len(ops) :
          /\ ops[i].kind = "copy" /\ ops[i].relisted /\ ops[i].answers = <<TRUE, TRUE>>
          /\ ops[j].kind = "copy" /\ ops[j].entry.is_dir /\ ops[j].stage = "done"

-----------------------------------------------------------------------------
(* Claims about the cloud pane's entries and the drops' target folder      *)

\* C26: in cloud mode, once a listing of a navigateInto, goUp or refresh
\* has succeeded, the entries on display are the listing of the folder
\* whose id is at the top of the path stack (of the root when the stack is
\* empty), also when listings overlap and complete out of order.
C26_EntriesAreTopOfStack ==
    (cloudConfig /\ lastDone.arg # "none" /\ lastDone.ok)
        => entries = ListCloudDirectory(TopId(pathStack))

\* A listing issued before the one that completed before it has just
\* succeeded, and the view is inside a folder
C26_Witness ==
    /\ cloudConfig /\ lastDone.ok /\ lastDone.late
    /\ Len(pathStack) >= 1
    /\ entries = <<RemoteEntry("iz", "z", TRUE)>>

\* C27: in cloud mode an upload issued by a drop passes as remoteParentId
\* the folder id at the top of the path stack when the view is inside a
\* folder, and null when it is at the cloud root.
C27_DropTargetsTopOfStack ==
    cloudConfig =>
        \A i \in 1..Len(ops) :
            ops[i].kind = "drop" =>
                ops[i].args[1].remoteParentId = TopId(ops[i].args[1].stack)

-----------------------------------------------------------------------------
(* Claims about clicks under a search query and about where fetched        *)
(* children are stored                                                     *)

\* The index paths of all nodes held in the tree
RECURSIVE HeldPaths(_, _)
HeldPaths(nodes, indexPath) ==
    UNION {
        {indexPath \o <<i>>} \cup
        (IF nodes[i].children.present
            THEN HeldPaths(nodes[i].children.kids, indexPath \o <<i>>)
            ELSE {})
        : i \in 1..Len(nodes)}

\* C29: while a non-empty search query is active, a click on a displayed
\* directory flips expanded (and sets loading on a first expansion) on the
\* node of the tree that has the clicked row's path, and changes expanded
\* and loading on no other node.
C29_ClickUnderSearchHitsClickedNode ==
    [][\A idx \in RenderedPaths(VisibleNodes, <<>>) :
          (searchQuery # <<>> /\ ToggleFolder(idx)) =>
              LET node == NodeAt(VisibleNodes, idx)
              IN  \A p \in HeldPaths(tree, <<>>) :
                      LET before == NodeAt(tree, p)
                          after == NodeAt(tree', p)
                      IN  IF before.path = node.path
                            THEN /\ after.expanded = ~before.expanded
                                 /\ after.loading = (~before.expanded /\ ~before.children.present)
                            ELSE /\ after.expanded = before.expanded
                                 /\ after.loading = before.loading]_vars

\* C30: when the answer of list_directory(D) of an expand is stored, the
\* node that receives the children has path D, whatever happened to the
\* root level while the fetch was in flight.
C30_ChildrenStoredUnderTheirDirectory ==
    [][\A f \in fetches :
          (ExpandArrives(f, TRUE) /\ tree' # tree) =>
              /\ Resolves(tree, f.idx)
              /\ NodeAt(tree, f.idx).path = f.path]_vars

-----------------------------------------------------------------------------
(* Claims about overlapping fetches of the two panes                       *)

\* C31: when the last of the overlapping root-level fetches of the local
\* tree has completed (none left in flight, no failure since the last one
\* was issued), the root-level nodes are the listing of the current root
\* path, whatever the order of the responses.
C31_RootLevelIsCurrentPathListing ==
    (/\ lastRoot.valid /\ lastRoot.ok /\ treeError = NoError
     /\ ~\E f \in fetches : f.kind \in {"root", "refresh"}) =>
        LET listed == ListDirectory(currentPath)
        IN  /\ Len(tree) = Len(listed)
            /\ \A i \in 1..Len(tree) : tree[i].path = listed[i].path

\* C32: in FTP mode, when no listing request is in flight any more, the
\* last one to complete succeeded and none has failed since the last one
\* was issued, the entries on display are the listing of the directory that
\* remotePath names.
C32_EntriesBelongToShownPath ==
    (/\ ~cloudConfig /\ listings = {} /\ lastDone.arg # "none" /\ lastDone.ok
     /\ remoteError = "null") =>
        entries = ListRemoteDirectory(remotePath)

-----------------------------------------------------------------------------
(* Claims about the connection state, the live transfers and the batches   *)

\* C33: the remote tree is mounted and Disconnect is offered only after a
\* connect that succeeded with no disconnect since; otherwise (initially,
\* after a failed connect, after a disconnect) a selected connection shows
\* its details with Connect.
C33_MountedOnlyWhenConnected == RemoteMounted => remoteActive

\* C34 as stated: a record whose most recent progress event has status
\* in-progress is never removed by a removal timer; it is in the live map
\* unless Clear was pressed after that event.
C34_InProgressNeverRemoved ==
    \A id \in TransferIds :
        (lastEvt[id].seen /\ lastEvt[id].p.status = "in-progress" /\ ~lastEvt[id].cleared)
            => id \in DOMAIN activeTransfers

\* C34 amended: the same, when no removal armed by an earlier complete event
\* of the same id was still pending when the in-progress event arrived.
C34_InProgressStaysUnlessRemovalPending ==
    \A id \in TransferIds :
        (/\ lastEvt[id].seen /\ lastEvt[id].p.status = "in-progress"
         /\ ~lastEvt[id].pendingBefore /\ ~lastEvt[id].cleared)
            => /\ id \in DOMAIN activeTransfers
               /\ activeTransfers[id] = lastEvt[id].p

\* An in-progress record outlives the removal of the other id's record, its
\* own id's earlier record having been removed by a timer before
C34_Witness ==
    \E id \in TransferIds :
        /\ lastEvt[id].seen /\ lastEvt[id].p.status = "in-progress"
        /\ lastEvt[id].afterRemoval /\ ~lastEvt[id].pendingBefore
        /\ now > lastEvt[id].at
        /\ timers = {}
        /\ id \in DOMAIN activeTransfers

\* C35: all files of one native drag-drop batch are sent to the same backend
\* operation, the one decided when the batch was dispatched, whatever
\* connect, disconnect or selection change happens while it is processed.
C35_BatchKeepsItsOperation ==
    \A b \in BatchIds :
        batches[b].kind = "native" =>
            \A k \in 1..Len(blog[b]) :
                blog[b][k].ev = "call" => blog[b][k].kind = batches[b].op

\* A native batch has sent its two files to one operation, and a drop
\* dispatched now would go to another one
C35_Witness ==
    \E b \in BatchIds :
        /\ batches[b].kind = "native" /\ batches[b].phase = "done" /\ batches[b].n = 2
        /\ Cardinality({k \in 1..Len(blog[b]) : blog[b][k].ev = "call"}) = 2
        /\ OpOfDrop("native") # batches[b].op

-----------------------------------------------------------------------------
(* Claims about the remote tree's loading flag and the configuration store *)

\* C36: every listing request of the remote tree whose backend calls have
\* returned, with success or with an error, has set loading = false: the
\* flag is never true while no listing is in flight, and when every backend
\* call returns in the end, a loading flag that is true becomes false.
C36_LoadingEndsWithListing ==
    /\ [](listings = {} => ~remoteLoading)
    /\ (remoteLoading ~> ~remoteLoading)

\* The last of several listings of an FTP pane has failed, none is in
\* flight any more and the flag is down
C36_Witness ==
    /\ ~cloudConfig /\ listings = {} /\ ~remoteLoading /\ nList >= 2
    /\ lastDone.arg # "none" /\ ~lastDone.ok
    /\ remoteError = "error"

\* C37: saveConfig(newConfig) passes the whole configuration object to
\* save_config; when the save succeeds the store's config becomes newConfig
\* (and nothing else of the store changes), and when it fails the store's
\* config is as it was and the store's error is set.
C37_SaveStoresOnSuccessOnly ==
    \A i \in 1..Len(saves) :
        /\ saves[i].arg = [config |-> saves[i].newConfig]
        /\ saves[i].stage = "saved" =>
              saves[i].after = [saves[i].before EXCEPT !.config = saves[i].newConfig]
        /\ saves[i].stage = "failed" =>
              /\ saves[i].after.config = saves[i].before.config
              /\ saves[i].after.error # NoError

\* A save of a changed configuration has failed and left the config alone,
\* and a later save has replaced it
C37_Witness ==
    \E i, j \in 1..Len(saves) :
        /\ i < j
        /\ saves[i].stage = "failed" /\ saves[i].newConfig # saves[i].before.config
        /\ saves[j].stage = "saved" /\ saves[j].newConfig # saves[j].before.config
        /\ store.config = saves[j].newConfig /\ store.error # NoError

====
